---- MODULE Spec2Model ----
(***************************************************************************)
(* weekly-todo: the week filter, the storage adapters and the one-time     *)
(* localStorage -> IndexedDB migration, as state machines.                 *)
(*                                                                         *)
(* Time.  A Date is an integer count of ticks of local time since          *)
(* 1970-01-01T00:00 (a Thursday); a day has TicksPerDay ticks, tick 0 of a *)
(* day is 00:00:00.000 and tick TicksPerDay-1 is 23:59:59.999.  An ISO     *)
(* datetime string is modelled by the Date it parses to.                   *)
(***************************************************************************)
EXTENDS Integers, Sequences, FiniteSets, TLC

\* JavaScript null in a field that otherwise holds a Date (every Date is >= 0)
Null == -1

TicksPerDay == 2   \* granularity of the clock within one day
MaxDay == 9        \* dates are drawn from day 0 .. MaxDay
MaxLen == 2        \* longest task list handed to the filter
MaxTasks == 2      \* tasks created in one run of the repository
MaxNow == 1        \* the repository's clock runs from 0 to MaxNow
MaxMigrations == 2 \* calls of migrateFromLocalStorage in one run
MaxLegacy == 2     \* records in the legacy store when the run starts

\* values a caller puts in a payload
ExplicitOrder == 5 \* an order given to create
ForeignId == 9     \* an id no stored task has
ForeignDate == 7   \* a createdAt no stored task has
FirstYear == 2019   \* the calendar is walked from January 1st of FirstYear
LastYear == 2026    \* to December 31st of LastYear
MaxStoreTasks == 3  \* tasks created through the task store
MaxNav == 2         \* calls of navigateWeek before the week is reset
EarlyYear == 5      \* a year of the first century, written "0005"

\* src/unnamed/part_001:2
TaskStatus == {"upcoming", "in-progress", "completed", "on-hold"}

VARIABLES
  fTasks,    \* filter: the task list argument
  fWeek,     \* filter: the weekInfo argument
  fShowAll,  \* filter: the showAll argument
  fOut,      \* filter: the returned list; report: the returned report or statistics
  fSame,     \* filter: whether the returned array is the very array that was passed
  fpc        \* filter: "args" before the call, "done" after it

VARIABLES
  backend,   \* the adapter createStorageAdapter returned: "localStorage", "indexedDB" or "noop"
  profile,   \* which payloads the caller of this run passes: "status" or "fields"
  faulty,    \* whether the underlying writes of this run may fail
  conc,      \* how many adapter calls the caller lets overlap
  ls,        \* localStorage['weekly-todo-tasks']
  flag,      \* localStorage['weekly-todo-migration-completed'] === 'true'
  idb,       \* the committed records of the IndexedDB object store 'tasks'
  tx,        \* the open readwrite transaction of a bulkUpdate, or NoTx
  calls,     \* adapter calls suspended at an await, oldest first
  now,       \* the clock read by new Date()
  nextId,    \* the next id uuidv4() hands out
  last,      \* the adapter call that settled in the last step: arguments, what it read, result
  overridden,\* whether some update payload so far supplied completedAt
  mig,       \* the calls of migrateFromLocalStorage: where each is, what it holds, its result
  inserts,   \* how many bulk inserts of legacy records have been committed
  needed     \* the last call of isMigrationNeeded: what it saw and what it returned

VARIABLES
  zone,        \* the time zone the program runs in: how local midnight maps to getTime()
  today,       \* calendar: the date new Date() returns
  selectedWeek,\* the filter store's selectedWeek
  path,        \* the directions navigateWeek was called with since the week was reset
  isoWeek,     \* the string formatISOWeek produced or parseISOWeek is given
  wcall        \* the calendar call made in the last step: function, argument, result

VARIABLES
  taskStore, \* the state of useTaskStore: tasks, isLoading, error, isInitialized
  act,       \* the action of the task store that settled in the last step, or NoAct
  refresh,   \* whether a fetchTasks() started by reorderTasks is waiting for getAll()
  init       \* the calls of initialize(): where each is

storeVars == <<taskStore, act, refresh, init>>
filterArgs == <<fTasks, fWeek, fShowAll, fOut, fSame, fpc>>
filterVars == <<fTasks, fWeek, fShowAll, fOut, fSame, fpc, zone, today, selectedWeek, path, isoWeek, wcall>>
repoVars == <<backend, profile, faulty, conc, ls, flag, idb, tx, calls, now, nextId, last, overridden>>
migVars == <<mig, inserts, needed>>
vars == <<fTasks, fWeek, fShowAll, fOut, fSame, fpc, zone, today, selectedWeek, path, isoWeek, wcall,
          backend, profile, faulty, conc, ls, flag, idb, tx, calls, now, nextId, last, overridden,
          mig, inserts, needed,
          taskStore, act, refresh, init>>

----------------------------------------------------------------------------
(* date-utils *)

Days == 0..MaxDay
Dates == {d * TicksPerDay + k : d \in Days, k \in {0, TicksPerDay - 1}}

DayOf(t) == t \div TicksPerDay

\* Date.prototype.getDay: 0 = Sunday .. 6 = Saturday; day 0 is a Thursday
getDay(t) == (DayOf(t) + 4) % 7

\* d.setHours(0, 0, 0, 0)
startOfDay(t) == DayOf(t) * TicksPerDay

\* d.setHours(23, 59, 59, 999)
endOfDay(t) == DayOf(t) * TicksPerDay + (TicksPerDay - 1)

\* The local calendar of Date: proleptic Gregorian, day 0 = 1970-01-01.
IsLeap(y) == (y % 4 = 0 /\ y % 100 # 0) \/ y % 400 = 0

LeapsBefore(y) == (y - 1) \div 4 - (y - 1) \div 100 + (y - 1) \div 400

\* the day number of January 1st of year y
YearStartDay(y) == 365 * (y - 1970) + LeapsBefore(y) - LeapsBefore(1970)

\* the days of year y that precede its month m (0 = January .. 12 = the year's end)
DaysBeforeMonth(y, m) ==
  <<0, 31, 59, 90, 120, 151, 181, 212, 243, 273, 304, 334, 365>>[m + 1]
    + (IF m >= 2 /\ IsLeap(y) THEN 1 ELSE 0)

\* Date.prototype.getFullYear
getFullYear(t) ==
  LET day == DayOf(t)
      a == 1970 + day \div 366
      b == 1970 + day \div 365
  IN  CHOOSE y \in (IF a <= b THEN a ELSE b)..((IF a <= b THEN b ELSE a) + 1) :
        YearStartDay(y) <= day /\ day < YearStartDay(y + 1)

\* days since January 1st of the date's year
DayOfYear(t) == DayOf(t) - YearStartDay(getFullYear(t))

\* Date.prototype.getMonth: 0 = January .. 11 = December
getMonth(t) ==
  LET y == getFullYear(t)
  IN  CHOOSE m \in 0..11 :
        /\ DaysBeforeMonth(y, m) <= DayOfYear(t)
        /\ DayOfYear(t) < DaysBeforeMonth(y, m + 1)

\* Date.prototype.getDate: the day of the month, from 1
getDate(t) == DayOfYear(t) - DaysBeforeMonth(getFullYear(t), getMonth(t)) + 1

\* new Date(year, monthIndex, day): local midnight; a year from 0 to 99 means
\* 1900 + year
NewDate(year, monthIndex, day) ==
  LET y == IF year >= 0 /\ year <= 99 THEN 1900 + year ELSE year
  IN  (YearStartDay(y) + DaysBeforeMonth(y, monthIndex) + day - 1) * TicksPerDay

\* Time zones: one that never changes its clocks, and the rules of one
\* northern and of one southern zone with daylight saving time.
Zones == {"UTC", "Europe/Berlin", "Australia/Sydney"}

\* whether the local midnight that starts t's day is one hour ahead of the
\* zone's standard time: clocks change in the small hours of a Sunday, in
\* Berlin on the last Sundays of March and October, in Sydney on the first
\* Sundays of October and April
DstActive(t) ==
  LET y == getFullYear(t)
      day == DayOf(t)
      SundayOnOrBefore(n) == n - ((n + 4) % 7)
      FirstSunday(m) == SundayOnOrBefore(YearStartDay(y) + DaysBeforeMonth(y, m) + 6)
      LastSunday(m) == SundayOnOrBefore(YearStartDay(y) + DaysBeforeMonth(y, m + 1) - 1)
  IN  CASE zone = "UTC" -> FALSE
        [] zone = "Europe/Berlin" -> LastSunday(2) < day /\ day <= LastSunday(9)
        [] zone = "Australia/Sydney" -> day <= FirstSunday(3) \/ FirstSunday(9) < day

\* 86400000 ms, counted in hours
HoursPerDay == 24

\* Date.prototype.getTime of a local midnight, in hours
getTime(t) == DayOf(t) * HoursPerDay - (IF DstActive(t) THEN 1 ELSE 0)

\* Math.ceil(a / b) for b > 0
Ceil(a, b) == -((-a) \div b)

\* the week counted from the date itself, not from the week's Thursday
getISOWeek_noThursday(date) ==
  LET d == startOfDay(date)
      yearStart == NewDate(getFullYear(d), 0, 1)
      weekNum == Ceil(getTime(d) - getTime(yearStart) + HoursPerDay, 7 * HoursPerDay)
  IN  [year |-> getFullYear(d), week |-> weekNum]

getISOWeek(date) ==
  LET d0 == startOfDay(date)
      dayNum == IF getDay(d0) = 0 THEN 7 ELSE getDay(d0)
      d == d0 + (4 - dayNum) * TicksPerDay
      yearStart == NewDate(getFullYear(d), 0, 1)
      weekNum == Ceil(getTime(d) - getTime(yearStart) + HoursPerDay, 7 * HoursPerDay)
  IN  [year |-> getFullYear(d), week |-> weekNum]

\* Sunday treated like the other days: one day on instead of six days back
getMonday_sundayAhead(date) ==
  LET day == getDay(date)
      diff == DayOf(date) - day + 1
  IN  diff * TicksPerDay

getMonday(date) ==
  LET day == getDay(date)
      diff == DayOf(date) - day + (IF day = 0 THEN -6 ELSE 1)
  IN  diff * TicksPerDay

getSunday(date) ==
  LET monday == getMonday(date)
  IN  endOfDay(monday + 6 * TicksPerDay)

getWeekInfo(date) ==
  LET iso == getISOWeek(date)
  IN  [year |-> iso.year, week |-> iso.week,
       startDate |-> getMonday(date), endDate |-> getSunday(date)]

\* the week number stepped without regard to the year's last week
getNextWeek_weekPlusOne(current) ==
  [year |-> current.year, week |-> current.week + 1,
   startDate |-> current.startDate + 7 * TicksPerDay,
   endDate |-> current.endDate + 7 * TicksPerDay]

getNextWeek(current) ==
  LET nextMonday == current.startDate + 7 * TicksPerDay
  IN  getWeekInfo(nextMonday)

getPreviousWeek(current) ==
  LET prevMonday == current.startDate - 7 * TicksPerDay
  IN  getWeekInfo(prevMonday)

\* Strings are sequences of one-character strings.
DigitChars == <<"0", "1", "2", "3", "4", "5", "6", "7", "8", "9">>

IsDigit(c) == \E n \in 1..10 : DigitChars[n] = c

DigitValue(c) == (CHOOSE n \in 1..10 : DigitChars[n] = c) - 1

\* Number.prototype.toString of a non-negative integer
RECURSIVE toString(_)
toString(n) ==
  IF n < 10 THEN <<DigitChars[n + 1]>>
  ELSE toString(n \div 10) \o <<DigitChars[(n % 10) + 1]>>

\* String.prototype.padStart(targetLength, "0")
RECURSIVE padStart(_, _)
padStart(str, targetLength) ==
  IF Len(str) >= targetLength THEN str ELSE padStart(<<"0">> \o str, targetLength)

\* parseInt(digits, 10) of a string of decimal digits
RECURSIVE parseInt(_)
parseInt(str) ==
  IF str = <<>> THEN 0
  ELSE 10 * parseInt(SubSeq(str, 1, Len(str) - 1)) + DigitValue(str[Len(str)])

formatISOWeek(weekInfo) ==
  LET weekNum == padStart(toString(weekInfo.week), 2)
  IN  toString(weekInfo.year) \o <<"-", "W">> \o weekNum

\* isoWeek.match(/^(\d{4})-W(\d{2})$/)
MatchesISOWeek(str) ==
  /\ Len(str) = 8
  /\ \A i \in {1, 2, 3, 4, 7, 8} : IsDigit(str[i])
  /\ str[5] = "-"
  /\ str[6] = "W"

Threw(message) == [outcome |-> "threw", error |-> "Error", message |-> message]
Parsed(value) == [outcome |-> "returned", value |-> value]

\* a string that does not match is read as far as it goes
parseISOWeek_lenient(str) ==
  IF Len(str) < 8 \/ ~(\A i \in {1, 2, 3, 4, 7, 8} : IsDigit(str[i]))
  THEN Threw("Invalid ISO week format")
  ELSE LET year == parseInt(SubSeq(str, 1, 4))
           week == parseInt(SubSeq(str, 7, 8))
           jan4 == NewDate(year, 0, 4)
           jan4WeekInfo == getWeekInfo(jan4)
           weekOffset == week - jan4WeekInfo.week
           targetMonday == jan4WeekInfo.startDate + weekOffset * 7 * TicksPerDay
       IN  Parsed(getWeekInfo(targetMonday))

parseISOWeek(str) ==
  IF ~MatchesISOWeek(str) THEN Threw("Invalid ISO week format")
  ELSE LET year == parseInt(SubSeq(str, 1, 4))
           week == parseInt(SubSeq(str, 7, 8))
           jan4 == NewDate(year, 0, 4)
           jan4WeekInfo == getWeekInfo(jan4)
           weekOffset == week - jan4WeekInfo.week
           targetMonday == jan4WeekInfo.startDate + weekOffset * 7 * TicksPerDay
       IN  Parsed(getWeekInfo(targetMonday))

\* a strict lower bound instead of the inclusive one
isDateInWeek_exclusiveStart(date, weekInfo) ==
  LET d == startOfDay(date)
      start == startOfDay(weekInfo.startDate)
      end == endOfDay(weekInfo.endDate)
  IN  d > start /\ d <= end

isDateInWeek(date, weekInfo) ==
  LET d == startOfDay(date)
      start == startOfDay(weekInfo.startDate)
      end == endOfDay(weekInfo.endDate)
  IN  d >= start /\ d <= end

----------------------------------------------------------------------------
(* storage adapters: local-storage.ts and indexeddb-storage.ts              *)
(* A Task carries id, content, status, priority, createdAt, updatedAt,      *)
(* completedAt and order; deadline, tags and userId are copied through by   *)
(* every operation and are left out.                                        *)

NoTask == [id |-> 0]
NoTx == [open |-> FALSE]
NoCall == [op |-> "none"]

\* the value under localStorage['weekly-todo-tasks']: absent, or JSON text
\* that parses to an array of tasks
LsAbsent == [kind |-> "absent", tasks |-> <<>>]
LsArray(tasks) == [kind |-> "array", tasks |-> tasks]
\* text that JSON.parse rejects
LsCorrupt == [kind |-> "corrupt", tasks |-> <<>>]

\* LocalStorageAdapter.getTasks
getTasks(store) == IF store.kind = "array" THEN store.tasks ELSE <<>>

\* LocalStorageAdapter.saveTasks: setItem may throw (quota); the error is
\* caught and logged, and the caller goes on
saveTasks(store, tasks, ok) == IF ok THEN LsArray(tasks) ELSE store

Max(S) == CHOOSE x \in S : \A y \in S : y <= x

\* completedAt is left null whatever the status
newTask_neverCompleted(taskData, tasksInStatus, id, t) ==
  LET maxOrder == IF tasksInStatus # {}
                  THEN Max({x.order : x \in tasksInStatus})
                  ELSE -1
  IN  [id |-> id,
       content |-> taskData.content,
       status |-> taskData.status,
       priority |-> taskData.priority,
       createdAt |-> t,
       updatedAt |-> t,
       completedAt |-> Null,
       order |-> IF "order" \in DOMAIN taskData THEN taskData.order ELSE maxOrder + 1]

\* the default order is the number of tasks in the status
newTask_orderCount(taskData, tasksInStatus, id, t) ==
  [id |-> id,
   content |-> taskData.content,
   status |-> taskData.status,
   priority |-> taskData.priority,
   createdAt |-> t,
   updatedAt |-> t,
   completedAt |-> IF taskData.status = "completed" THEN t ELSE Null,
   order |-> IF "order" \in DOMAIN taskData THEN taskData.order
             ELSE Cardinality(tasksInStatus)]

\* create: the task built from taskData, the tasks read from the store and now
newTask(taskData, tasksInStatus, id, t) ==
  LET maxOrder == IF tasksInStatus # {}
                  THEN Max({x.order : x \in tasksInStatus})
                  ELSE -1
  IN  [id |-> id,
       content |-> taskData.content,
       status |-> taskData.status,
       priority |-> taskData.priority,
       createdAt |-> t,
       updatedAt |-> t,
       completedAt |-> IF taskData.status = "completed" THEN t ELSE Null,
       order |-> IF "order" \in DOMAIN taskData THEN taskData.order ELSE maxOrder + 1]

\* completedAt is stamped with the task's previous updatedAt instead of now
completedAtAfter_staleStamp(existingTask, updates, t) ==
  LET c0 == existingTask.completedAt
      c1 == IF /\ "status" \in DOMAIN updates
               /\ updates.status = "completed"
               /\ existingTask.status # "completed"
            THEN existingTask.updatedAt ELSE c0
      c2 == IF /\ "status" \in DOMAIN updates
               /\ updates.status # "completed"
               /\ existingTask.status = "completed"
            THEN Null ELSE c1
  IN  IF "completedAt" \in DOMAIN updates THEN updates.completedAt ELSE c2

\* the rule that clears completedAt when a task leaves "completed" is missing
completedAtAfter_noClear(existingTask, updates, t) ==
  LET c0 == existingTask.completedAt
      c1 == IF /\ "status" \in DOMAIN updates
               /\ updates.status = "completed"
               /\ existingTask.status # "completed"
            THEN t ELSE c0
  IN  IF "completedAt" \in DOMAIN updates THEN updates.completedAt ELSE c1

\* the explicit completedAt is applied first and the status rules after it
completedAtAfter_explicitFirst(existingTask, updates, t) ==
  LET c0 == IF "completedAt" \in DOMAIN updates
            THEN updates.completedAt ELSE existingTask.completedAt
      c1 == IF /\ "status" \in DOMAIN updates
               /\ updates.status = "completed"
               /\ existingTask.status # "completed"
            THEN t ELSE c0
      c2 == IF /\ "status" \in DOMAIN updates
               /\ updates.status # "completed"
               /\ existingTask.status = "completed"
            THEN Null ELSE c1
  IN  c2

\* completedAt is recomputed from the status the task ends up with
completedAtAfter_fromStatus(existingTask, updates, t) ==
  LET status == IF "status" \in DOMAIN updates THEN updates.status ELSE existingTask.status
  IN  IF "completedAt" \in DOMAIN updates THEN updates.completedAt
      ELSE IF status = "completed" THEN t ELSE Null

\* update: "Handle completedAt logic"
completedAtAfter(existingTask, updates, t) ==
  LET c0 == existingTask.completedAt
      c1 == IF /\ "status" \in DOMAIN updates
               /\ updates.status = "completed"
               /\ existingTask.status # "completed"
            THEN t ELSE c0
      c2 == IF /\ "status" \in DOMAIN updates
               /\ updates.status # "completed"
               /\ existingTask.status = "completed"
            THEN Null ELSE c1
      c3 == IF "completedAt" \in DOMAIN updates THEN updates.completedAt ELSE c2
  IN  c3

\* the payload is spread after id and createdAt, so it can overwrite them
updatedTask_payloadLast(existingTask, updates, t) ==
  [k \in DOMAIN existingTask |->
     CASE k = "updatedAt" -> t
       [] k = "completedAt" -> completedAtAfter(existingTask, updates, t)
       [] OTHER -> IF k \in DOMAIN updates THEN updates[k] ELSE existingTask[k]]

\* update: { ...existingTask, ...updates, id, createdAt, updatedAt: now, completedAt }
updatedTask(existingTask, updates, t) ==
  [k \in DOMAIN existingTask |->
     CASE k = "id" -> existingTask.id
       [] k = "createdAt" -> existingTask.createdAt
       [] k = "updatedAt" -> t
       [] k = "completedAt" -> completedAtAfter(existingTask, updates, t)
       [] OTHER -> IF k \in DOMAIN updates THEN updates[k] ELSE existingTask[k]]

\* bulkUpdate: updatedTasks.map(task => ({ ...task, updatedAt: now }))
tasksWithTimestamp(updatedTasks, t) ==
  [i \in DOMAIN updatedTasks |-> [updatedTasks[i] EXCEPT !.updatedAt = t]]

SeqToSet(s) == {s[i] : i \in DOMAIN s}
Ids(S) == {x.id : x \in S}

\* the index of the first task is used when no task has the id
findIndex_unchecked(tasks, id) ==
  IF \E i \in DOMAIN tasks : tasks[i].id = id
  THEN CHOOSE i \in DOMAIN tasks :
         tasks[i].id = id /\ \A j \in 1..(i - 1) : tasks[j].id # id
  ELSE IF tasks # <<>> THEN 1 ELSE 0

\* tasks.findIndex(t => t.id === id), 0 for -1
findIndex(tasks, id) ==
  IF \E i \in DOMAIN tasks : tasks[i].id = id
  THEN CHOOSE i \in DOMAIN tasks :
         tasks[i].id = id /\ \A j \in 1..(i - 1) : tasks[j].id # id
  ELSE 0

\* put adds the record and keeps the one that has the same key
IdbPut_keepsOld(store, task) == store \cup {task}

\* the object store is keyed by id: put replaces the record with the same key
IdbPut(store, task) == {x \in store : x.id # task.id} \cup {task}
IdbGet(store, id) ==
  IF \E x \in store : x.id = id THEN CHOOSE x \in store : x.id = id ELSE NoTask

RECURSIVE IdbPutAll(_, _)
IdbPutAll(store, tasks) ==
  IF tasks = <<>> THEN store
  ELSE IdbPutAll(IdbPut(store, Head(tasks)), Tail(tasks))

\* what the active backend's getAll() returns, as a set
Stored == IF backend = "localStorage" THEN SeqToSet(getTasks(ls)) ELSE idb
StoredTask(id) ==
  IF \E x \in Stored : x.id = id THEN CHOOSE x \in Stored : x.id = id ELSE NoTask

\* the outcome of an underlying write: it may fail only in a faulty run
WriteOutcomes == IF faulty THEN BOOLEAN ELSE {TRUE}

\* what callers pass.  A run of profile "status" moves tasks between statuses
\* and sets completedAt by hand; a run of profile "fields" creates tasks with
\* and without an explicit order and edits the other fields, with payloads
\* that may carry id and createdAt
CreateInputs ==
  IF profile = "status"
  THEN [content : {"abc"}, status : TaskStatus, priority : {"medium"}]
  ELSE [content : {"abc"}, status : {"upcoming", "completed"}, priority : {"medium"}]
       \cup [content : {"abc"}, status : {"upcoming", "completed"}, priority : {"medium"},
             order : {ExplicitOrder}]

UpdateInputs ==
  LET st == {[status |-> x] : x \in TaskStatus}
      ca == {[completedAt |-> c] : c \in {Null, 0}}
      both == {[status |-> "completed", completedAt |-> Null],
               [status |-> "in-progress", completedAt |-> 0]}
      fields == {[priority |-> "high"],
                 [content |-> "xyz", order |-> ExplicitOrder + 2],
                 [id |-> ForeignId, createdAt |-> ForeignDate, priority |-> "low"]}
  IN  IF profile = "status" THEN st \cup ca \cup both ELSE fields

TaskIds == 1..MaxTasks

Settled(op, id, input, existing, result, outcome) ==
  [op |-> op, id |-> id, input |-> input, existing |-> existing,
   result |-> result, outcome |-> outcome, at |-> now]

RepoIdle ==
  /\ backend = "localStorage" /\ profile = "status" /\ faulty = FALSE /\ conc = 1
  /\ ls = LsAbsent /\ flag = FALSE /\ idb = {} /\ tx = NoTx /\ calls = <<>>
  /\ now = 0 /\ nextId = 1 /\ last = NoCall /\ overridden = FALSE

Migrations == 1..MaxMigrations
NotCalled == [pc |-> "idle"]
NotAsked == [asked |-> FALSE]

\* create<TaskStore>: tasks: [], isLoading: false, error: null, isInitialized: false
NoError == ""
InitialStore(initialized) ==
  [tasks |-> <<>>, isLoading |-> FALSE, error |-> NoError, isInitialized |-> initialized]
NoAct == [op |-> "none"]
Initializers == 1..MaxMigrations

StoreIdle ==
  /\ taskStore = InitialStore(FALSE)
  /\ act = NoAct
  /\ refresh = FALSE
  /\ init = [i \in Initializers |-> NotCalled]

MigIdle ==
  /\ mig = [p \in Migrations |-> NotCalled]
  /\ inserts = 0
  /\ needed = NotAsked
  /\ StoreIdle

NoWeek == [year |-> 0, week |-> 0, startDate |-> 0, endDate |-> 0]

WeekIdle ==
  /\ zone = "UTC" /\ today = 0 /\ selectedWeek = NoWeek
  /\ path = <<>> /\ isoWeek = <<>> /\ wcall = [fn |-> "none"]

FilterArgsIdle ==
  /\ fTasks = <<>> /\ fWeek = NoWeek
  /\ fShowAll = FALSE /\ fOut = <<>> /\ fSame = FALSE /\ fpc = "idle"

FilterIdle == FilterArgsIdle /\ WeekIdle

RepoInit(mayFail, payloads) ==
  /\ faulty = mayFail
  /\ profile = payloads
  /\ FilterIdle
  /\ MigIdle
  /\ backend \in {"localStorage", "indexedDB", "noop"}
  /\ conc = 1
  /\ overridden = FALSE
  /\ ls = LsAbsent
  /\ flag = FALSE
  /\ idb = {}
  /\ tx = NoTx
  /\ calls = <<>>
  /\ now = 0
  /\ nextId = 1
  /\ last = NoCall

\* time passes between two reads of the clock
Tick ==
  /\ now < MaxNow
  /\ now' = now + 1
  /\ last' = NoCall
  /\ UNCHANGED <<backend, profile, faulty, conc, ls, flag, idb, tx, calls, nextId, overridden>>
  /\ UNCHANGED <<storeVars, filterVars, migVars>>

(* LocalStorageAdapter: no method awaits, so a call runs to its end in one step *)

LsCreate ==
  /\ backend = "localStorage" /\ nextId <= MaxTasks
  /\ \E taskData \in CreateInputs, ok \in WriteOutcomes :
       LET tasks == getTasks(ls)
           tasksInStatus == {x \in SeqToSet(tasks) : x.status = taskData.status}
           task == newTask(taskData, tasksInStatus, nextId, now)
       IN  /\ ls' = saveTasks(ls, Append(tasks, task), ok)
           /\ last' = Settled("create", nextId, taskData, NoTask, task,
                              IF ok THEN "resolved" ELSE "resolved-unsaved")
  /\ nextId' = nextId + 1
  /\ UNCHANGED <<backend, profile, faulty, conc, flag, idb, tx, calls, now, overridden>>
  /\ UNCHANGED <<storeVars, filterVars, migVars>>

LsUpdate ==
  /\ backend = "localStorage"
  /\ \E id \in TaskIds, updates \in UpdateInputs, ok \in WriteOutcomes :
       LET tasks == getTasks(ls)
           index == findIndex(tasks, id)
       IN  IF index = 0
           THEN /\ last' = Settled("update", id, updates, NoTask, NoTask, "NotFound")
                /\ ls' = ls
                /\ overridden' = overridden
           ELSE LET task == updatedTask(tasks[index], updates, now)
                IN  /\ ls' = saveTasks(ls, [tasks EXCEPT ![index] = task], ok)
                    /\ last' = Settled("update", id, updates, tasks[index], task,
                                       IF ok THEN "resolved" ELSE "resolved-unsaved")
                    /\ overridden' = (overridden \/ "completedAt" \in DOMAIN updates)
  /\ UNCHANGED <<backend, profile, faulty, conc, flag, idb, tx, calls, now, nextId>>
  /\ UNCHANGED <<storeVars, filterVars, migVars>>

LsDelete ==
  /\ backend = "localStorage"
  /\ \E id \in TaskIds, ok \in WriteOutcomes :
       LET tasks == getTasks(ls)
           keep(x) == x.id # id
           filtered == SelectSeq(tasks, keep)
       IN  IF Len(filtered) = Len(tasks)
           THEN /\ last' = Settled("delete", id, <<>>, NoTask, NoTask, "NotFound")
                /\ ls' = ls
           ELSE /\ ls' = saveTasks(ls, filtered, ok)
                /\ last' = Settled("delete", id, <<>>, tasks[findIndex(tasks, id)], NoTask,
                                   IF ok THEN "resolved" ELSE "resolved-unsaved")
  /\ UNCHANGED <<backend, profile, faulty, conc, flag, idb, tx, calls, now, nextId, overridden>>
  /\ UNCHANGED <<storeVars, filterVars, migVars>>

\* the batches a caller passes to bulkUpdate: stored tasks in some sequence,
\* each with its order set to its place in it
BulkInputs ==
  LET n == Cardinality(Stored)
      seqs == UNION {{f \in [1..k -> Stored] :
                        \A i, j \in 1..k : i # j => f[i].id # f[j].id} : k \in 1..n}
  IN  {[i \in DOMAIN f |-> [f[i] EXCEPT !.order = i - 1]] : f \in seqs}

LsBulkUpdate ==
  /\ backend = "localStorage"
  /\ \E updatedTasks \in BulkInputs, ok \in WriteOutcomes :
       LET batch == tasksWithTimestamp(updatedTasks, now)
       IN  /\ ls' = saveTasks(ls, batch, ok)
           /\ last' = Settled("bulkUpdate", 0, updatedTasks,
                              {StoredTask(batch[i].id) : i \in DOMAIN batch}, batch,
                              IF ok THEN "resolved" ELSE "resolved-unsaved")
  /\ UNCHANGED <<backend, profile, faulty, conc, flag, idb, tx, calls, now, nextId, overridden>>
  /\ UNCHANGED <<storeVars, filterVars, migVars>>

\* clear: localStorage.removeItem(STORAGE_KEY)
LsClear ==
  /\ backend = "localStorage"
  /\ ls.kind # "absent"
  /\ ls' = LsAbsent
  /\ last' = Settled("clear", 0, <<>>, NoTask, NoTask, "resolved")
  /\ UNCHANGED <<backend, profile, faulty, conc, flag, idb, tx, calls, now, nextId, overridden>>
  /\ UNCHANGED <<storeVars, filterVars, migVars>>

(* IndexedDBStorageAdapter: a call issues its read, is suspended, and writes   *)
(* when it is resumed.  A read or write issued while a readwrite transaction   *)
(* on the store is open waits for it.                                          *)

MayStart == backend = "indexedDB" /\ Len(calls) < conc /\ ~tx.open

Remove(s, i) == [j \in 1..(Len(s) - 1) |-> IF j < i THEN s[j] ELSE s[j + 1]]

\* create, up to "await this.getByStatus(taskData.status)"
IdbCreateStart ==
  /\ MayStart /\ nextId + Len(SelectSeq(calls, LAMBDA c : c.op = "create")) <= MaxTasks
  /\ \E taskData \in CreateInputs :
       calls' = Append(calls, [op |-> "create", input |-> taskData, at |-> now,
                               read |-> {x \in idb : x.status = taskData.status}])
  /\ last' = NoCall
  /\ UNCHANGED <<backend, profile, faulty, conc, ls, flag, idb, tx, now, nextId, overridden>>
  /\ UNCHANGED <<storeVars, filterVars, migVars>>

\* create, from the task literal to "await db.add"
IdbCreateFinish ==
  /\ backend = "indexedDB" /\ ~tx.open
  /\ \E i \in DOMAIN calls, ok \in WriteOutcomes :
       /\ calls[i].op = "create"
       /\ LET task == newTask(calls[i].input, calls[i].read, nextId, calls[i].at)
          IN  /\ idb' = IF ok THEN IdbPut(idb, task) ELSE idb
              /\ last' = Settled("create", nextId, calls[i].input, NoTask, task,
                                 IF ok THEN "resolved" ELSE "rejected")
       /\ calls' = Remove(calls, i)
  /\ nextId' = nextId + 1
  /\ UNCHANGED <<backend, profile, faulty, conc, ls, flag, tx, now, overridden>>
  /\ UNCHANGED <<storeVars, filterVars, migVars>>

\* update, up to "await db.get(TASKS_STORE, id)"
IdbUpdateStart ==
  /\ MayStart
  /\ \E id \in TaskIds, updates \in UpdateInputs :
       calls' = Append(calls, [op |-> "update", id |-> id, input |-> updates,
                               read |-> IdbGet(idb, id)])
  /\ last' = NoCall
  /\ UNCHANGED <<backend, profile, faulty, conc, ls, flag, idb, tx, now, nextId, overridden>>
  /\ UNCHANGED <<storeVars, filterVars, migVars>>

\* update, from "if (!existingTask)" to "await db.put"
IdbUpdateFinish ==
  /\ backend = "indexedDB" /\ ~tx.open
  /\ \E i \in DOMAIN calls, ok \in WriteOutcomes :
       /\ calls[i].op = "update"
       /\ LET existingTask == calls[i].read
              updates == calls[i].input
          IN  IF existingTask = NoTask
              THEN /\ idb' = idb
                   /\ last' = Settled("update", calls[i].id, updates, NoTask, NoTask, "NotFound")
                   /\ overridden' = overridden
              ELSE LET task == updatedTask(existingTask, updates, now)
                   IN  /\ idb' = IF ok THEN IdbPut(idb, task) ELSE idb
                       /\ last' = Settled("update", calls[i].id, updates, existingTask, task,
                                          IF ok THEN "resolved" ELSE "rejected")
                       /\ overridden' = (overridden \/ "completedAt" \in DOMAIN updates)
       /\ calls' = Remove(calls, i)
  /\ UNCHANGED <<backend, profile, faulty, conc, ls, flag, tx, now, nextId>>
  /\ UNCHANGED <<storeVars, filterVars, migVars>>

\* delete, up to "await db.get(TASKS_STORE, id)"
IdbDeleteStart ==
  /\ MayStart
  /\ \E id \in TaskIds :
       calls' = Append(calls, [op |-> "delete", id |-> id, read |-> IdbGet(idb, id)])
  /\ last' = NoCall
  /\ UNCHANGED <<backend, profile, faulty, conc, ls, flag, idb, tx, now, nextId, overridden>>
  /\ UNCHANGED <<storeVars, filterVars, migVars>>

\* delete, from "if (!existingTask)" to "await db.delete"
IdbDeleteFinish ==
  /\ backend = "indexedDB" /\ ~tx.open
  /\ \E i \in DOMAIN calls, ok \in WriteOutcomes :
       /\ calls[i].op = "delete"
       /\ IF calls[i].read = NoTask
          THEN /\ idb' = idb
               /\ last' = Settled("delete", calls[i].id, <<>>, NoTask, NoTask, "NotFound")
          ELSE /\ idb' = IF ok THEN {x \in idb : x.id # calls[i].id} ELSE idb
               /\ last' = Settled("delete", calls[i].id, <<>>, calls[i].read, NoTask,
                                  IF ok THEN "resolved" ELSE "rejected")
       /\ calls' = Remove(calls, i)
  /\ UNCHANGED <<backend, profile, faulty, conc, ls, flag, tx, now, nextId, overridden>>
  /\ UNCHANGED <<storeVars, filterVars, migVars>>

\* clear: db.clear(TASKS_STORE)
IdbClear ==
  /\ MayStart /\ idb # {}
  /\ idb' = {}
  /\ last' = Settled("clear", 0, <<>>, NoTask, NoTask, "resolved")
  /\ UNCHANGED <<backend, profile, faulty, conc, ls, flag, tx, calls, now, nextId, overridden>>
  /\ UNCHANGED <<storeVars, filterVars, migVars>>

\* one db.put per task, each committed on its own
committedAfterPut_noTransaction(store, task) == IdbPut(store, task)

\* tx.store.put(task) in the transaction db.transaction(TASKS_STORE, 'readwrite'):
\* the record is written inside the transaction; the committed records, which
\* are what every other read sees, stay as they are until the transaction is done
committedAfterPut(store, task) == store

\* bulkUpdate, up to the transaction being opened
IdbBulkStart ==
  /\ MayStart
  /\ \E updatedTasks \in BulkInputs :
       tx' = [open |-> TRUE, input |-> updatedTasks,
              batch |-> tasksWithTimestamp(updatedTasks, now), puts |-> 0,
              old |-> {IdbGet(idb, updatedTasks[i].id) : i \in DOMAIN updatedTasks}]
  /\ last' = NoCall
  /\ UNCHANGED <<backend, profile, faulty, conc, ls, flag, idb, calls, now, nextId, overridden>>
  /\ UNCHANGED <<storeVars, filterVars, migVars>>

\* the next put request of the transaction is carried out
IdbBulkPut ==
  /\ tx.open /\ tx.puts < Len(tx.batch)
  /\ tx' = [tx EXCEPT !.puts = tx.puts + 1]
  /\ idb' = committedAfterPut(idb, tx.batch[tx.puts + 1])
  /\ UNCHANGED <<backend, profile, faulty, conc, ls, flag, calls, now, nextId, last, overridden>>
  /\ UNCHANGED <<storeVars, filterVars, migVars>>

\* every put succeeded and the transaction commits: tx.done resolves
IdbBulkCommit ==
  /\ tx.open /\ tx.puts = Len(tx.batch)
  /\ idb' = IdbPutAll(idb, tx.batch)
  /\ tx' = NoTx
  /\ last' = Settled("bulkUpdate", 0, tx.input, tx.old, tx.batch, "resolved")
  /\ UNCHANGED <<backend, profile, faulty, conc, ls, flag, calls, now, nextId, overridden>>
  /\ UNCHANGED <<storeVars, filterVars, migVars>>

\* a put or the commit fails, or the page goes away: the transaction aborts
\* and what it wrote is discarded; Promise.all rejects
IdbBulkAbort ==
  /\ tx.open /\ faulty
  /\ tx' = NoTx
  /\ last' = Settled("bulkUpdate", 0, tx.input, tx.old, tx.batch, "rejected")
  /\ UNCHANGED <<backend, profile, faulty, conc, ls, flag, idb, calls, now, nextId, overridden>>
  /\ UNCHANGED <<storeVars, filterVars, migVars>>

(* NoOpStorageAdapter: what createStorageAdapter returns when there is no window *)

Reads == {"getAll", "getById", "getByStatus", "getByDateRange"}
Mutations == {"create", "update", "delete", "bulkUpdate", "clear"}

\* how a call of the method settles: reads resolve with nothing, create,
\* update, delete and bulkUpdate throw an Error, clear resolves
NoOpStorageAdapter(op) ==
  CASE op = "getAll" -> [result |-> <<>>, outcome |-> "resolved"]
    [] op = "getById" -> [result |-> NoTask, outcome |-> "resolved"]
    [] op = "create" -> [result |-> NoTask, outcome |-> "Unsupported"]
    [] op = "update" -> [result |-> NoTask, outcome |-> "Unsupported"]
    [] op = "delete" -> [result |-> NoTask, outcome |-> "Unsupported"]
    [] op = "bulkUpdate" -> [result |-> <<>>, outcome |-> "Unsupported"]
    [] op = "getByStatus" -> [result |-> <<>>, outcome |-> "resolved"]
    [] op = "getByDateRange" -> [result |-> <<>>, outcome |-> "resolved"]
    [] op = "clear" -> [result |-> NoTask, outcome |-> "resolved"]

\* the arguments a caller may pass to the method
ArgsOf(op) ==
  CASE op \in {"getById", "delete"} -> [id : TaskIds, input : {<<>>}]
    [] op = "create" -> [id : {0}, input : CreateInputs]
    [] op = "update" -> [id : TaskIds, input : UpdateInputs]
    [] op = "getByStatus" -> [id : {0}, input : TaskStatus]
    [] op = "getByDateRange" -> [id : {0}, input : {0, TicksPerDay} \X {0, TicksPerDay}]
    [] OTHER -> [id : {0}, input : {<<>>}]

NoOpCall ==
  /\ backend = "noop"
  /\ \E op \in Reads \cup Mutations :
       \E a \in ArgsOf(op) :
         last' = Settled(op, a.id, a.input, NoTask,
                         NoOpStorageAdapter(op).result, NoOpStorageAdapter(op).outcome)
  /\ UNCHANGED <<backend, profile, faulty, conc, ls, flag, idb, tx, calls, now, nextId, overridden>>
  /\ UNCHANGED <<storeVars, filterVars, migVars>>

RepoNext ==
  \/ Tick
  \/ NoOpCall
  \/ LsCreate \/ LsUpdate \/ LsDelete \/ LsBulkUpdate \/ LsClear
  \/ IdbCreateStart \/ IdbCreateFinish \/ IdbUpdateStart \/ IdbUpdateFinish
  \/ IdbDeleteStart \/ IdbDeleteFinish \/ IdbClear
  \/ IdbBulkStart \/ IdbBulkPut \/ IdbBulkCommit

RepoFaultyNext == RepoNext \/ IdbBulkAbort

----------------------------------------------------------------------------
(* the two adapters side by side: the same calls, with the same generated   *)
(* ids and the same clock, are issued to a LocalStorageAdapter and to an    *)
(* IndexedDBStorageAdapter, each call after the previous one has settled    *)

Outcome(store, result, outcome) ==
  [store |-> store, result |-> result, outcome |-> outcome]

\* LocalStorageAdapter.getById and getByStatus
LsGetById(store, id) ==
  LET tasks == getTasks(store)
  IN  IF findIndex(tasks, id) = 0 THEN NoTask ELSE tasks[findIndex(tasks, id)]
LsGetByStatus(store, status) == SelectSeq(getTasks(store), LAMBDA x : x.status = status)

\* IndexedDBStorageAdapter.getByStatus: db.getAllFromIndex(TASKS_STORE, 'by-status', status)
IdbGetByStatus(store, status) == {x \in store : x.status = status}

LsCreated(store, taskData, id, t) ==
  LET tasks == getTasks(store)
      task == newTask(taskData, SeqToSet(LsGetByStatus(store, taskData.status)), id, t)
  IN  Outcome(saveTasks(store, Append(tasks, task), TRUE), task, "resolved")

IdbCreated(store, taskData, id, t) ==
  LET task == newTask(taskData, IdbGetByStatus(store, taskData.status), id, t)
  IN  Outcome(IdbPut(store, task), task, "resolved")

LsUpdated(store, id, updates, t) ==
  LET tasks == getTasks(store)
      index == findIndex(tasks, id)
  IN  IF index = 0 THEN Outcome(store, NoTask, "NotFound")
      ELSE LET task == updatedTask(tasks[index], updates, t)
           IN  Outcome(saveTasks(store, [tasks EXCEPT ![index] = task], TRUE),
                       task, "resolved")

IdbUpdated(store, id, updates, t) ==
  LET existingTask == IdbGet(store, id)
  IN  IF existingTask = NoTask THEN Outcome(store, NoTask, "NotFound")
      ELSE LET task == updatedTask(existingTask, updates, t)
           IN  Outcome(IdbPut(store, task), task, "resolved")

LsDeleted(store, id) ==
  LET tasks == getTasks(store)
      filtered == SelectSeq(tasks, LAMBDA x : x.id # id)
  IN  IF Len(filtered) = Len(tasks) THEN Outcome(store, NoTask, "NotFound")
      ELSE Outcome(saveTasks(store, filtered, TRUE), NoTask, "resolved")

IdbDeleted(store, id) ==
  IF IdbGet(store, id) = NoTask THEN Outcome(store, NoTask, "NotFound")
  ELSE Outcome({x \in store : x.id # id}, NoTask, "resolved")

\* what the caller got back from each adapter
BothSettled(op, id, input, fromLs, fromIdb) ==
  [op |-> op, id |-> id, input |-> input,
   ls |-> [result |-> fromLs.result, outcome |-> fromLs.outcome],
   idb |-> [result |-> fromIdb.result, outcome |-> fromIdb.outcome]]

BothInit ==
  /\ backend = "both"
  /\ profile \in {"status", "fields"}
  /\ faulty = FALSE /\ conc = 1
  /\ ls = LsAbsent /\ flag = FALSE /\ idb = {} /\ tx = NoTx /\ calls = <<>>
  /\ now = 0 /\ nextId = 1 /\ last = NoCall /\ overridden = FALSE
  /\ FilterIdle
  /\ MigIdle

BothCreate ==
  /\ backend = "both" /\ nextId <= MaxTasks
  /\ \E taskData \in CreateInputs :
       LET fromLs == LsCreated(ls, taskData, nextId, now)
           fromIdb == IdbCreated(idb, taskData, nextId, now)
       IN  /\ ls' = fromLs.store
           /\ idb' = fromIdb.store
           /\ last' = BothSettled("create", nextId, taskData, fromLs, fromIdb)
  /\ nextId' = nextId + 1
  /\ UNCHANGED <<backend, profile, faulty, conc, flag, tx, calls, now, overridden>>
  /\ UNCHANGED <<storeVars, filterVars, migVars>>

BothUpdate ==
  /\ backend = "both"
  /\ \E id \in TaskIds, updates \in UpdateInputs :
       LET fromLs == LsUpdated(ls, id, updates, now)
           fromIdb == IdbUpdated(idb, id, updates, now)
       IN  /\ ls' = fromLs.store
           /\ idb' = fromIdb.store
           /\ last' = BothSettled("update", id, updates, fromLs, fromIdb)
  /\ UNCHANGED <<backend, profile, faulty, conc, flag, tx, calls, now, nextId, overridden>>
  /\ UNCHANGED <<storeVars, filterVars, migVars>>

BothDelete ==
  /\ backend = "both"
  /\ \E id \in TaskIds :
       LET fromLs == LsDeleted(ls, id)
           fromIdb == IdbDeleted(idb, id)
       IN  /\ ls' = fromLs.store
           /\ idb' = fromIdb.store
           /\ last' = BothSettled("delete", id, <<>>, fromLs, fromIdb)
  /\ UNCHANGED <<backend, profile, faulty, conc, flag, tx, calls, now, nextId, overridden>>
  /\ UNCHANGED <<storeVars, filterVars, migVars>>

BothClear ==
  /\ backend = "both"
  /\ ls.kind # "absent"
  /\ ls' = LsAbsent
  /\ idb' = {}
  /\ last' = BothSettled("clear", 0, <<>>, Outcome(LsAbsent, NoTask, "resolved"),
                         Outcome({}, NoTask, "resolved"))
  /\ UNCHANGED <<backend, profile, faulty, conc, flag, tx, calls, now, nextId, overridden>>
  /\ UNCHANGED <<storeVars, filterVars, migVars>>

BothNext == Tick \/ BothCreate \/ BothUpdate \/ BothDelete \/ BothClear

----------------------------------------------------------------------------
(* migration.ts: migrateFromLocalStorage                                    *)
(* The function runs without interruption up to "await bulkUpdate", is      *)
(* suspended while the transaction runs, and runs without interruption from *)
(* there to its return.                                                     *)

\* the records found in the legacy store: two well-formed ones, one whose
\* content is empty, one whose status is empty and one without an id
LegacyTask(id, content, status) ==
  [id |-> id, content |-> content, status |-> status, priority |-> "medium",
   createdAt |-> 0, updatedAt |-> 0, completedAt |-> Null, order |-> 0]

LegacyRecords ==
  {LegacyTask(1, "abc", "upcoming"), LegacyTask(2, "abc", "in-progress"),
   LegacyTask(3, "", "upcoming"), LegacyTask(4, "abc", ""),
   LegacyTask(0, "abc", "upcoming")}

LegacyArrays ==
  UNION {{f \in [1..k -> LegacyRecords] : \A i, j \in 1..k : i # j => f[i] # f[j]}
         : k \in 0..MaxLegacy}

\* only the id is looked at
isValid_idOnly(task) == task.id # 0

\* tasks.filter(task => task.id && task.content && task.status)
isValid(task) == task.id # 0 /\ task.content # "" /\ task.status # ""
validTasksOf(tasks) == SelectSeq(tasks, isValid)

\* a step of the call throws only in a faulty run
Faults(steps) == IF faulty THEN {"none"} \cup steps ELSE {"none"}

InFlight == Cardinality({p \in Migrations : mig[p].pc \in {"insert", "finish"}})

Suspended(p, validTasks) ==
  [pc |-> "insert", validTasks |-> validTasks,
   lsBefore |-> ls, flagBefore |-> flag, idbBefore |-> idb]

\* the call has returned `result`; `raised` names the step that threw, if any
Returned(p, success, tasksCount, raised, before, lsAfter, flagAfter, idbAfter) ==
  [pc |-> "done",
   result |-> [success |-> success, tasksCount |-> tasksCount,
               error |-> IF success THEN "" ELSE raised],
   raised |-> raised,
   lsBefore |-> before.lsBefore, flagBefore |-> before.flagBefore,
   idbBefore |-> before.idbBefore,
   lsAfter |-> lsAfter, flagAfter |-> flagAfter, idbAfter |-> idbAfter]

MigInit(mayFail, overlap) ==
  /\ faulty = mayFail /\ conc = overlap
  /\ FilterIdle
  /\ backend = "indexedDB" /\ profile = "status"
  /\ ls \in {LsAbsent} \cup {LsArray(a) : a \in LegacyArrays}
            \cup (IF faulty THEN {LsCorrupt} ELSE {})
  /\ flag = FALSE /\ idb = {} /\ tx = NoTx /\ calls = <<>>
  /\ now = 0 /\ nextId = 1 /\ last = NoCall /\ overridden = FALSE
  /\ MigIdle

MigTick ==
  /\ now < MaxNow
  /\ now' = now + 1
  /\ UNCHANGED <<backend, profile, faulty, conc, ls, flag, idb, tx, calls, nextId, last, overridden>>
  /\ UNCHANGED <<storeVars, filterVars, migVars>>

\* from the flag check to "await indexedDBAdapter.bulkUpdate(validTasks)",
\* or to the return when there is nothing to insert
migrateFromLocalStorage(p) ==
  /\ mig[p].pc = "idle" /\ InFlight < conc
  /\ \A q \in Migrations : q < p => mig[q].pc # "idle"
  /\ LET before == [lsBefore |-> ls, flagBefore |-> flag, idbBefore |-> idb]
         validTasks == validTasksOf(ls.tasks)
     IN  IF flag
         THEN /\ mig' = [mig EXCEPT ![p] = Returned(p, TRUE, 0, "none", before, ls, flag, idb)]
              /\ flag' = flag
         ELSE IF ls.kind = "corrupt"
         THEN /\ mig' = [mig EXCEPT ![p] = Returned(p, FALSE, 0, "parse", before, ls, flag, idb)]
              /\ flag' = flag
         ELSE IF ls.kind = "absent" \/ Len(ls.tasks) = 0 \/ Len(validTasks) = 0
         THEN \E f \in Faults({"setFlag"}) :
                IF f = "none"
                THEN /\ flag' = TRUE
                     /\ mig' = [mig EXCEPT ![p] = Returned(p, TRUE, 0, "none", before, ls, TRUE, idb)]
                ELSE /\ flag' = flag
                     /\ mig' = [mig EXCEPT ![p] = Returned(p, FALSE, 0, f, before, ls, flag, idb)]
         ELSE /\ mig' = [mig EXCEPT ![p] = Suspended(p, validTasks)]
              /\ flag' = flag
  /\ UNCHANGED <<backend, profile, faulty, conc, ls, idb, tx, calls, now, nextId, last, overridden>>
  /\ UNCHANGED <<filterVars, inserts, needed>>

\* migrateFromLocalStorage called by useStorageMigration
MigrateStart(p) == migrateFromLocalStorage(p) /\ UNCHANGED storeVars

\* a failed bulk insert is not noticed: the call goes on to set the flag and
\* erase the legacy store
MigrateInsert_swallowsFailure(p) ==
  /\ mig[p].pc = "insert"
  /\ \E f \in Faults({"bulkUpdate"}) :
       IF f = "none"
       THEN /\ idb' = IdbPutAll(idb, tasksWithTimestamp(mig[p].validTasks, now))
            /\ inserts' = inserts + 1
            /\ mig' = [mig EXCEPT ![p].pc = "finish"]
       ELSE /\ idb' = idb
            /\ inserts' = inserts
            /\ mig' = [mig EXCEPT ![p].pc = "finish"]
  /\ UNCHANGED <<backend, profile, faulty, conc, ls, flag, tx, calls, now, nextId, last, overridden>>
  /\ UNCHANGED <<storeVars, filterVars, needed>>

\* IndexedDBStorageAdapter.bulkUpdate(validTasks): the transaction commits,
\* or it fails and the await throws into the catch
MigrateInsert(p) ==
  /\ mig[p].pc = "insert"
  /\ \E f \in Faults({"bulkUpdate"}) :
       IF f = "none"
       THEN /\ idb' = IdbPutAll(idb, tasksWithTimestamp(mig[p].validTasks, now))
            /\ inserts' = inserts + 1
            /\ mig' = [mig EXCEPT ![p].pc = "finish"]
       ELSE /\ idb' = idb
            /\ inserts' = inserts
            /\ mig' = [mig EXCEPT ![p] = Returned(p, FALSE, 0, f, mig[p], ls, flag, idb)]
  /\ UNCHANGED <<backend, profile, faulty, conc, ls, flag, tx, calls, now, nextId, last, overridden>>
  /\ UNCHANGED <<storeVars, filterVars, needed>>

\* the order of the last two steps is exchanged: the legacy store is erased
\* before the flag is set
MigrateFinish_eraseFirst(p) ==
  /\ mig[p].pc = "finish"
  /\ \E f \in Faults({"setFlag", "removeItem"}) :
       CASE f = "none" ->
              /\ flag' = TRUE
              /\ ls' = LsAbsent
              /\ mig' = [mig EXCEPT ![p] =
                   Returned(p, TRUE, Len(mig[p].validTasks), f, mig[p], LsAbsent, TRUE, idb)]
         [] f = "removeItem" ->
              /\ flag' = flag
              /\ ls' = ls
              /\ mig' = [mig EXCEPT ![p] = Returned(p, FALSE, 0, f, mig[p], ls, flag, idb)]
         [] f = "setFlag" ->
              /\ flag' = flag
              /\ ls' = LsAbsent
              /\ mig' = [mig EXCEPT ![p] = Returned(p, FALSE, 0, f, mig[p], LsAbsent, flag, idb)]
  /\ UNCHANGED <<backend, profile, faulty, conc, idb, tx, calls, now, nextId, last, overridden>>
  /\ UNCHANGED <<storeVars, filterVars, inserts, needed>>

\* from "localStorage.setItem(MIGRATION_FLAG_KEY, 'true')" to the return
MigrateFinish(p) ==
  /\ mig[p].pc = "finish"
  /\ \E f \in Faults({"setFlag", "removeItem"}) :
       CASE f = "none" ->
              /\ flag' = TRUE
              /\ ls' = LsAbsent
              /\ mig' = [mig EXCEPT ![p] =
                   Returned(p, TRUE, Len(mig[p].validTasks), f, mig[p], LsAbsent, TRUE, idb)]
         [] f = "setFlag" ->
              /\ flag' = flag
              /\ ls' = ls
              /\ mig' = [mig EXCEPT ![p] = Returned(p, FALSE, 0, f, mig[p], ls, flag, idb)]
         [] f = "removeItem" ->
              /\ flag' = TRUE
              /\ ls' = ls
              /\ mig' = [mig EXCEPT ![p] = Returned(p, FALSE, 0, f, mig[p], ls, TRUE, idb)]
  /\ UNCHANGED <<backend, profile, faulty, conc, idb, tx, calls, now, nextId, last, overridden>>
  /\ UNCHANGED <<storeVars, filterVars, inserts, needed>>

\* the flag alone decides
isMigrationNeeded_flagOnly == ~flag

\* isMigrationNeeded(): false without a window; otherwise
\* !migrationCompleted && hasLocalStorageData
isMigrationNeeded ==
  IF backend = "noop" THEN FALSE
  ELSE LET migrationCompleted == flag
           hasLocalStorageData == ls.kind # "absent"
       IN  ~migrationCompleted /\ hasLocalStorageData

\* useStorageMigration asks whether to migrate
IsMigrationNeededCall ==
  /\ needed' = [asked |-> TRUE, result |-> isMigrationNeeded, flag |-> flag, ls |-> ls]
  /\ needed' # needed
  /\ UNCHANGED <<storeVars, repoVars, filterVars, mig, inserts>>

MigNext ==
  \/ MigTick
  \/ IsMigrationNeededCall
  \/ \E p \in Migrations : MigrateStart(p)
  \/ \E p \in Migrations : MigrateInsert(p)
  \/ \E p \in Migrations : MigrateFinish(p)

----------------------------------------------------------------------------
(* filter-utils *)

\* the week window applied to every task that carries a completedAt
filterTasksByWeekInfo_weekFirst(tasks, weekInfo, showAll) ==
  IF showAll THEN tasks
  ELSE LET keep(task) ==
             IF task.completedAt # Null
             THEN isDateInWeek(task.completedAt, weekInfo)
             ELSE task.status # "completed"
       IN  SelectSeq(tasks, keep)

\* the week window applied whatever showAll says
filterTasksByWeekInfo_ignoresShowAll(tasks, weekInfo, showAll) ==
  LET keep(task) ==
        IF task.status # "completed" THEN TRUE
        ELSE IF task.status = "completed" /\ task.completedAt # Null
             THEN isDateInWeek(task.completedAt, weekInfo)
             ELSE FALSE
  IN  SelectSeq(tasks, keep)

filterTasksByWeekInfo(tasks, weekInfo, showAll) ==
  IF showAll THEN tasks
  ELSE LET keep(task) ==
             IF task.status # "completed" THEN TRUE
             ELSE IF task.status = "completed" /\ task.completedAt # Null
                  THEN isDateInWeek(task.completedAt, weekInfo)
                  ELSE FALSE
       IN  SelectSeq(tasks, keep)

\* whether filterTasksByWeekInfo leaves through 'return tasks', which hands
\* back the array it was given, and not through 'return tasks.filter(...)',
\* which builds a new one
returnsTasks(showAll) == showAll

\* The tasks the filter is tried on: any status, completedAt null or any date,
\* whether or not it agrees with the status.
FilterTask(i) ==
  [id : {i}, status : TaskStatus, completedAt : {Null} \cup Dates,
   createdAt : {0, MaxDay * TicksPerDay}]

FilterInit ==
  /\ zone = "UTC"
  /\ fTasks = <<>>
  /\ fWeek \in {getWeekInfo(d) : d \in Dates}
  /\ fShowAll \in BOOLEAN
  /\ fOut = <<>>
  /\ fSame = FALSE
  /\ fpc = "args"
  /\ WeekIdle
  /\ RepoIdle
  /\ MigIdle

\* The caller builds the list it will pass.
FilterAddTask ==
  /\ fpc = "args"
  /\ Len(fTasks) < MaxLen
  /\ \E t \in FilterTask(Len(fTasks) + 1) : fTasks' = Append(fTasks, t)
  /\ UNCHANGED <<fWeek, fShowAll, fOut, fSame, fpc>>
  /\ UNCHANGED <<zone, today, selectedWeek, path, isoWeek, wcall>>
  /\ UNCHANGED <<storeVars, repoVars, migVars>>

\* const filteredTasks = filterTasksByWeekInfo(tasks, selectedWeek, showAllWeeks)
FilterCall ==
  /\ fpc = "args"
  /\ fOut' = filterTasksByWeekInfo(fTasks, fWeek, fShowAll)
  /\ fSame' = returnsTasks(fShowAll)
  /\ fpc' = "done"
  /\ UNCHANGED <<fTasks, fWeek, fShowAll>>
  /\ UNCHANGED <<zone, today, selectedWeek, path, isoWeek, wcall>>
  /\ UNCHANGED <<storeVars, repoVars, migVars>>

FilterNext == FilterAddTask \/ FilterCall

SpecFilter == FilterInit /\ [][FilterNext]_vars

----------------------------------------------------------------------------
(* filter-utils: the weekly report and the statistics *)

\* the order sorts upward
sortByOrder_descending(a, b) == b.order - a.order

sortByOrder(a, b) == a.order - b.order

\* Array.prototype.sort(sortByOrder): stable, an element goes behind those the
\* comparator does not put after it
RECURSIVE sort(_)
sort(arr) ==
  IF arr = <<>> THEN <<>>
  ELSE LET rest == sort(SubSeq(arr, 1, Len(arr) - 1))
           x == arr[Len(arr)]
           k == Cardinality({i \in DOMAIN rest : sortByOrder(rest[i], x) <= 0})
       IN  SubSeq(rest, 1, k) \o <<x>> \o SubSeq(rest, k + 1, Len(rest))

getWeekDays(weekInfo) ==
  LET current == startOfDay(weekInfo.startDate)
  IN  [i \in 1..7 |-> current + (i - 1) * TicksPerDay]

isSameDay(date1, date2) ==
  /\ getFullYear(date1) = getFullYear(date2)
  /\ getMonth(date1) = getMonth(date2)
  /\ getDate(date1) = getDate(date2)

\* "YYYY-MM-DD" of the local date
toISODate(date) ==
  toString(getFullYear(date)) \o <<"-">> \o padStart(toString(getMonth(date) + 1), 2)
    \o <<"-">> \o padStart(toString(getDate(date)), 2)

\* date.toLocaleDateString('en-US', { weekday: 'long' })
getDayName(date) ==
  <<"Sunday", "Monday", "Tuesday", "Wednesday", "Thursday", "Friday", "Saturday">>[getDay(date) + 1]

generateDailyReport(tasks, date) ==
  LET created(task) == isSameDay(task.createdAt, date)
      completed(task) ==
        /\ task.status = "completed"
        /\ task.completedAt # Null
        /\ isSameDay(task.completedAt, date)
  IN  [date |-> toISODate(date),
       dayOfWeek |-> getDayName(date),
       createdTasks |-> SelectSeq(tasks, created),
       completedTasks |-> SelectSeq(tasks, completed)]

\* the incomplete tasks narrowed to those created in the week
generateWeeklyReport_weekOnly(tasks, weekInfo) ==
  LET weekDays == getWeekDays(weekInfo)
      inWeek(t) == isDateInWeek(t.createdAt, weekInfo)
      upcoming(t) == t.status = "upcoming" /\ inWeek(t)
      inProgress(t) == t.status = "in-progress" /\ inWeek(t)
      onHold(t) == t.status = "on-hold" /\ inWeek(t)
  IN  [weekInfo |-> weekInfo,
       dailyReports |-> [i \in 1..7 |-> generateDailyReport(tasks, weekDays[i])],
       incompleteTasks |->
         [upcoming |-> sort(SelectSeq(tasks, upcoming)),
          inProgress |-> sort(SelectSeq(tasks, inProgress)),
          onHold |-> sort(SelectSeq(tasks, onHold))]]

generateWeeklyReport(tasks, weekInfo) ==
  LET weekDays == getWeekDays(weekInfo)
      upcoming(t) == t.status = "upcoming"
      inProgress(t) == t.status = "in-progress"
      onHold(t) == t.status = "on-hold"
  IN  [weekInfo |-> weekInfo,
       dailyReports |-> [i \in 1..7 |-> generateDailyReport(tasks, weekDays[i])],
       incompleteTasks |->
         [upcoming |-> sort(SelectSeq(tasks, upcoming)),
          inProgress |-> sort(SelectSeq(tasks, inProgress)),
          onHold |-> sort(SelectSeq(tasks, onHold))]]

\* a / b as a number: the fraction itself, NaN when both are 0
Quotient(a, b) == [num |-> a, den |-> b]

\* the rate computed without asking whether there are tasks
calculateTaskStatistics_noGuard(tasks) ==
  LET count(test(_)) == Len(SelectSeq(tasks, test))
      isCompleted(t) == t.status = "completed"
      isUpcoming(t) == t.status = "upcoming"
      isInProgress(t) == t.status = "in-progress"
      isOnHold(t) == t.status = "on-hold"
      total == Len(tasks)
      completed == count(isCompleted)
      isOverdue(t) ==
        t.status # "completed" /\ t.deadline # Null /\ t.deadline < startOfDay(today)
  IN  [total |-> total, completed |-> completed, upcoming |-> count(isUpcoming),
       inProgress |-> count(isInProgress), onHold |-> count(isOnHold),
       completionRate |-> Quotient(completed * 100, total),
       overdue |-> count(isOverdue)]

calculateTaskStatistics(tasks) ==
  LET count(test(_)) == Len(SelectSeq(tasks, test))
      isCompleted(t) == t.status = "completed"
      isUpcoming(t) == t.status = "upcoming"
      isInProgress(t) == t.status = "in-progress"
      isOnHold(t) == t.status = "on-hold"
      total == Len(tasks)
      completed == count(isCompleted)
      completionRate == IF total > 0 THEN Quotient(completed * 100, total)
                        ELSE Quotient(0, 1)
      isOverdue(t) ==
        t.status # "completed" /\ t.deadline # Null /\ t.deadline < startOfDay(today)
  IN  [total |-> total, completed |-> completed, upcoming |-> count(isUpcoming),
       inProgress |-> count(isInProgress), onHold |-> count(isOnHold),
       completionRate |-> completionRate,
       overdue |-> count(isOverdue)]

\* The tasks the report is made of: any status, one of two orders, created on
\* the first Thursday or on the Monday after it, never completed or completed
\* at the last instant of the Sunday between them or on that Monday, with or
\* without a deadline.
ReportTask(i) ==
  [id : {i}, status : TaskStatus, order : {1, 2},
   createdAt : {0, 4 * TicksPerDay},
   completedAt : {Null, 4 * TicksPerDay - 1, 4 * TicksPerDay},
   deadline : {Null, 0}]

ReportInit ==
  /\ zone = "UTC"
  /\ today = 4 * TicksPerDay
  /\ fTasks = <<>>
  /\ fWeek \in {getWeekInfo(d) : d \in Dates}
  /\ fShowAll = FALSE
  /\ fOut = <<>>
  /\ fSame = FALSE
  /\ fpc = "args"
  /\ selectedWeek = fWeek
  /\ path = <<>> /\ isoWeek = <<>> /\ wcall = [fn |-> "none"]
  /\ RepoIdle
  /\ MigIdle

\* The caller builds the list it will pass.
ReportAddTask ==
  /\ fpc = "args"
  /\ Len(fTasks) < MaxLen
  /\ \E t \in ReportTask(Len(fTasks) + 1) : fTasks' = Append(fTasks, t)
  /\ UNCHANGED <<fWeek, fShowAll, fOut, fSame, fpc>>
  /\ UNCHANGED <<zone, today, selectedWeek, path, isoWeek, wcall>>
  /\ UNCHANGED <<storeVars, repoVars, migVars>>

\* const weeklyReport = generateWeeklyReport(tasks, selectedWeek)
WeeklyReportCall ==
  /\ fpc = "args"
  /\ fOut' = generateWeeklyReport(fTasks, fWeek)
  /\ fpc' = "report"
  /\ UNCHANGED <<fTasks, fWeek, fShowAll, fSame>>
  /\ UNCHANGED <<zone, today, selectedWeek, path, isoWeek, wcall>>
  /\ UNCHANGED <<storeVars, repoVars, migVars>>

\* calculateTaskStatistics(tasks)
StatisticsCall ==
  /\ fpc = "args"
  /\ fOut' = calculateTaskStatistics(fTasks)
  /\ fpc' = "statistics"
  /\ UNCHANGED <<fTasks, fWeek, fShowAll, fSame>>
  /\ UNCHANGED <<zone, today, selectedWeek, path, isoWeek, wcall>>
  /\ UNCHANGED <<storeVars, repoVars, migVars>>

ReportNext == ReportAddTask \/ WeeklyReportCall \/ StatisticsCall

SpecReport == ReportInit /\ [][ReportNext]_vars

----------------------------------------------------------------------------
(* the week calendar as the filter store drives it *)

\* the dates the clock may show: every day of FirstYear .. LastYear, at the
\* first and at the last instant of the day
CalDates ==
  LET CalDays == YearStartDay(FirstYear)..(YearStartDay(LastYear + 1) - 1)
  IN  {d * TicksPerDay + k : d \in CalDays, k \in {0, TicksPerDay - 1}}

WeekCall(fn, arg, out) == [fn |-> fn, arg |-> arg, out |-> out]

\* const initialWeek = getCurrentWeekInfo(); selectedWeek: initialWeek
WeekInit ==
  /\ zone \in Zones
  /\ today \in CalDates
  /\ selectedWeek = getWeekInfo(today)
  /\ path = <<>>
  /\ isoWeek = <<>>
  /\ wcall = WeekCall("getWeekInfo", today, selectedWeek)
  /\ FilterArgsIdle
  /\ RepoIdle
  /\ MigIdle

navigateWeek(direction) ==
  /\ Len(path) < MaxNav
  /\ wcall.fn \in {"getWeekInfo", "navigateWeek"}
  /\ LET newWeek == IF direction = "next" THEN getNextWeek(selectedWeek)
                    ELSE getPreviousWeek(selectedWeek)
     IN  /\ selectedWeek' = newWeek
         /\ wcall' = WeekCall("navigateWeek", [from |-> selectedWeek, direction |-> direction], newWeek)
  /\ path' = Append(path, direction)
  /\ UNCHANGED <<zone, today, isoWeek>>
  /\ UNCHANGED filterArgs
  /\ UNCHANGED <<storeVars, repoVars, migVars>>

NavigateNext == navigateWeek("next")
NavigatePrev == navigateWeek("prev")

\* formatISOWeek(selectedWeek)
FormatCall ==
  /\ wcall.fn \in {"getWeekInfo", "navigateWeek", "setSelectedWeek"}
  /\ isoWeek' = formatISOWeek(selectedWeek)
  /\ wcall' = WeekCall("formatISOWeek", selectedWeek, isoWeek')
  /\ UNCHANGED <<zone, today, selectedWeek, path>>
  /\ UNCHANGED filterArgs
  /\ UNCHANGED <<storeVars, repoVars, migVars>>

\* parseISOWeek(isoWeek)
ParseCall ==
  /\ wcall.fn \in {"formatISOWeek", "string"}
  /\ wcall' = WeekCall("parseISOWeek", isoWeek, parseISOWeek(isoWeek))
  /\ UNCHANGED <<zone, today, selectedWeek, path, isoWeek>>
  /\ UNCHANGED filterArgs
  /\ UNCHANGED <<storeVars, repoVars, migVars>>

WeekNext == NavigateNext \/ NavigatePrev

SpecWeek == WeekInit /\ [][WeekNext]_vars

IsoWeekNext == FormatCall \/ ParseCall

SpecIsoWeek == WeekInit /\ [][IsoWeekNext]_vars

\* The strings parseISOWeek is tried on: every "YYYY-Wnn" of the sample years
\* with nn from 00 to 99, and what one edit (a character replaced, dropped or
\* put in) makes of two of them, and the empty string.
IsoStrings ==
  LET StringYears == {EarlyYear} \cup FirstYear..LastYear
      WeekStrings ==
        {padStart(toString(y), 4) \o <<"-", "W">> \o padStart(toString(w), 2) :
           y \in StringYears, w \in 0..99}
      EditChars == {"7", "-", "W", "w", "x", " "}
      Replaced(str) == {[str EXCEPT ![i] = c] : i \in DOMAIN str, c \in EditChars}
      Dropped(str) == {Remove(str, i) : i \in DOMAIN str}
      PutIn(str) ==
        {SubSeq(str, 1, i) \o <<c>> \o SubSeq(str, i + 1, Len(str)) :
           i \in 0..Len(str), c \in EditChars}
      EditedStrings ==
        UNION {Replaced(str) \cup Dropped(str) \cup PutIn(str) :
                 str \in {formatISOWeek([year |-> FirstYear, week |-> 1]),
                           formatISOWeek([year |-> LastYear, week |-> 53])}}
  IN  WeekStrings \cup EditedStrings \cup {<<>>}

\* a string arrives from outside while the store shows the current week
ParseInit ==
  /\ zone \in Zones
  /\ today = NewDate(LastYear, 0, 1)
  /\ selectedWeek = getWeekInfo(today)
  /\ path = <<>>
  /\ isoWeek \in IsoStrings
  /\ wcall = WeekCall("string", isoWeek, isoWeek)
  /\ FilterArgsIdle
  /\ RepoIdle
  /\ MigIdle

\* setSelectedWeek(week) with the week parseISOWeek returned
setSelectedWeek ==
  /\ wcall.fn = "parseISOWeek"
  /\ wcall.out.outcome = "returned"
  /\ selectedWeek' = wcall.out.value
  /\ wcall' = WeekCall("setSelectedWeek", wcall.out.value, selectedWeek')
  /\ UNCHANGED <<zone, today, path, isoWeek>>
  /\ UNCHANGED filterArgs
  /\ UNCHANGED <<storeVars, repoVars, migVars>>

ParseNext == ParseCall \/ setSelectedWeek \/ FormatCall

SpecParse == ParseInit /\ [][ParseNext]_vars

-----------------------------------------------------------------------------
(* TaskSearch: a task of the result list is selected                         *)

\* the page shows the current week; the tasks are those of FilterTask
SearchInit ==
  /\ zone = "UTC"
  /\ today \in {0, MaxDay * TicksPerDay}
  /\ selectedWeek = getWeekInfo(today)
  /\ path = <<>> /\ isoWeek = <<>>
  /\ wcall = WeekCall("getWeekInfo", today, selectedWeek)
  /\ fTasks = <<>> /\ fWeek = NoWeek /\ fShowAll = FALSE
  /\ fOut = <<>> /\ fSame = FALSE /\ fpc = "args"
  /\ RepoIdle
  /\ MigIdle

\* TaskSearch.handleTaskSelect(task): a completed task sets the selected week
\* to getWeekInfo(new Date(task.createdAt)); any other task is only highlighted
handleTaskSelect ==
  /\ \E i \in DOMAIN fTasks :
       LET task == fTasks[i]
       IN  /\ selectedWeek' = IF task.status = "completed"
                              THEN getWeekInfo(task.createdAt)
                              ELSE selectedWeek
           /\ wcall' = WeekCall("handleTaskSelect", task, selectedWeek')
  /\ UNCHANGED <<zone, today, path, isoWeek>>
  /\ UNCHANGED filterArgs
  /\ UNCHANGED <<storeVars, repoVars, migVars>>

SearchNext == FilterAddTask \/ handleTaskSelect
SpecSearch == SearchInit /\ [][SearchNext]_vars

-----------------------------------------------------------------------------
(* task store: useTaskStore, and the board and list view that call it        *)
(* The actions of the store are called one after the other: each runs from   *)
(* its first line over the awaited adapter call to its return in one step.   *)
(* The fetchTasks() that reorderTasks starts in its catch block is not       *)
(* awaited and settles in a later step.                                      *)

\* what the adapter call of a store action does: the backend it leaves, how it
\* settles, the task or list it resolves with, the message of the Error it
\* rejects with
AdapterResult(lsAfter, idbAfter, outcome, result, message) ==
  [ls |-> lsAfter, idb |-> idbAfter, outcome |-> outcome, result |-> result,
   message |-> message]

\* storage.create(taskData)
StorageCreate(taskData, ok) ==
  IF backend = "localStorage"
  THEN LET tasks == getTasks(ls)
           tasksInStatus == {x \in SeqToSet(tasks) : x.status = taskData.status}
           task == newTask(taskData, tasksInStatus, nextId, now)
       IN  AdapterResult(saveTasks(ls, Append(tasks, task), ok), idb, "resolved", task, NoError)
  ELSE LET tasksInStatus == {x \in idb : x.status = taskData.status}
           task == newTask(taskData, tasksInStatus, nextId, now)
       IN  IF ok THEN AdapterResult(ls, IdbPut(idb, task), "resolved", task, NoError)
           ELSE AdapterResult(ls, idb, "rejected", NoTask, "WriteFailed")

\* storage.update(id, updates)
StorageUpdate(id, updates, ok) ==
  IF backend = "localStorage"
  THEN LET tasks == getTasks(ls)
           index == findIndex(tasks, id)
       IN  IF index = 0 THEN AdapterResult(ls, idb, "rejected", NoTask, "NotFound")
           ELSE LET task == updatedTask(tasks[index], updates, now)
                IN  AdapterResult(saveTasks(ls, [tasks EXCEPT ![index] = task], ok), idb,
                                  "resolved", task, NoError)
  ELSE LET existingTask == IdbGet(idb, id)
       IN  IF existingTask = NoTask THEN AdapterResult(ls, idb, "rejected", NoTask, "NotFound")
           ELSE IF ok
           THEN LET task == updatedTask(existingTask, updates, now)
                IN  AdapterResult(ls, IdbPut(idb, task), "resolved", task, NoError)
           ELSE AdapterResult(ls, idb, "rejected", NoTask, "WriteFailed")

\* storage.delete(id)
StorageDelete(id, ok) ==
  IF backend = "localStorage"
  THEN LET tasks == getTasks(ls)
           keep(x) == x.id # id
           filtered == SelectSeq(tasks, keep)
       IN  IF Len(filtered) = Len(tasks)
           THEN AdapterResult(ls, idb, "rejected", NoTask, "NotFound")
           ELSE AdapterResult(saveTasks(ls, filtered, ok), idb, "resolved", NoTask, NoError)
  ELSE IF IdbGet(idb, id) = NoTask THEN AdapterResult(ls, idb, "rejected", NoTask, "NotFound")
       ELSE IF ok
       THEN AdapterResult(ls, {x \in idb : x.id # id}, "resolved", NoTask, NoError)
       ELSE AdapterResult(ls, idb, "rejected", NoTask, "WriteFailed")

\* storage.bulkUpdate(updatedTasks)
StorageBulkUpdate(updatedTasks, ok) ==
  LET batch == tasksWithTimestamp(updatedTasks, now)
  IN  IF backend = "localStorage"
      THEN AdapterResult(saveTasks(ls, batch, ok), idb, "resolved", batch, NoError)
      ELSE IF ok THEN AdapterResult(ls, IdbPutAll(idb, batch), "resolved", batch, NoError)
           ELSE AdapterResult(ls, idb, "rejected", <<>>, "WriteFailed")

\* storage.getAll(): the stored array, or the records of the object store in
\* the order of their keys
StorageGetAll ==
  IF backend = "localStorage" THEN getTasks(ls)
  ELSE LET n == Cardinality(idb)
       IN  CHOOSE f \in [1..n -> idb] :
             \A i, j \in 1..n : i < j => f[i].id < f[j].id

\* what a store action leaves behind for its caller: how it settled and the
\* message it rejected with
Acted(op, r) == [op |-> op, outcome |-> r.outcome, message |-> r.message]

\* the writes of the indexed backend may fail in a faulty run; a failed setItem
\* of the localStorage backend is swallowed by saveTasks and is left out here
StoreWriteOutcomes == IF faulty /\ backend = "indexedDB" THEN BOOLEAN ELSE {TRUE}

storeFrame ==
  /\ UNCHANGED <<backend, profile, faulty, conc, flag, tx, calls, now, last, overridden>>
  /\ UNCHANGED <<filterVars, migVars, init>>

\* useTaskStore.createTask
createTask(taskData, ok) ==
  LET r == StorageCreate(taskData, ok)
  IN  /\ nextId <= MaxStoreTasks
      /\ ls' = r.ls /\ idb' = r.idb /\ nextId' = nextId + 1
      /\ taskStore' = IF r.outcome = "resolved"
                      THEN [taskStore EXCEPT !.error = NoError,
                                             !.tasks = Append(@, r.result)]
                      ELSE [taskStore EXCEPT !.error = r.message]
      /\ act' = Acted("createTask", r)
      /\ refresh' = refresh
      /\ storeFrame

\* useTaskStore.updateTask
updateTask(id, updates, ok) ==
  LET r == StorageUpdate(id, updates, ok)
  IN  /\ ls' = r.ls /\ idb' = r.idb /\ nextId' = nextId
      /\ taskStore' = IF r.outcome = "resolved"
                      THEN [taskStore EXCEPT
                              !.error = NoError,
                              !.tasks = [i \in DOMAIN @ |->
                                           IF @[i].id = id THEN r.result ELSE @[i]]]
                      ELSE [taskStore EXCEPT !.error = r.message]
      /\ act' = Acted("updateTask", r)
      /\ refresh' = refresh
      /\ storeFrame

\* useTaskStore.deleteTask
deleteTask(id, ok) ==
  LET r == StorageDelete(id, ok)
      keep(t) == t.id # id
  IN  /\ ls' = r.ls /\ idb' = r.idb /\ nextId' = nextId
      /\ taskStore' = IF r.outcome = "resolved"
                      THEN [taskStore EXCEPT !.error = NoError,
                                             !.tasks = SelectSeq(@, keep)]
                      ELSE [taskStore EXCEPT !.error = r.message]
      /\ act' = Acted("deleteTask", r)
      /\ refresh' = refresh
      /\ storeFrame

\* useTaskStore.reorderTasks: when bulkUpdate rejects, the catch block sets
\* the error and calls fetchTasks(), whose first line runs at once:
\* set({ isLoading: true, error: null })
reorderTasks(updatedTasks, ok) ==
  LET r == StorageBulkUpdate(updatedTasks, ok)
  IN  /\ ls' = r.ls /\ idb' = r.idb /\ nextId' = nextId
      /\ taskStore' = IF r.outcome = "resolved"
                      THEN [taskStore EXCEPT !.error = NoError, !.tasks = r.result]
                      ELSE [taskStore EXCEPT !.error = NoError, !.isLoading = TRUE]
      /\ refresh' = (refresh \/ r.outcome # "resolved")
      /\ act' = Acted("reorderTasks", r)
      /\ storeFrame

\* useTaskStore.fetchTasks, from "await storage.getAll()" on
FetchTasksSettle ==
  /\ refresh
  /\ taskStore' = [taskStore EXCEPT !.tasks = StorageGetAll, !.isLoading = FALSE]
  /\ refresh' = FALSE
  /\ act' = NoAct
  /\ UNCHANGED <<ls, idb, nextId>>
  /\ storeFrame

\* arrayMove of @dnd-kit/sortable: the element at `from` is taken out and put
\* in at `to`
arrayMove(array, from, to) ==
  LET without == [i \in 1..(Len(array) - 1) |->
                    IF i < from THEN array[i] ELSE array[i + 1]]
  IN  SubSeq(without, 1, to - 1) \o <<array[from]>> \o SubSeq(without, to, Len(without))

\* KanbanBoard.getTasksByStatus, TaskListView.getTasksByStatus
getTasksByStatus(tasks, status) ==
  LET inStatus(task) == task.status = status
  IN  sort(SelectSeq(tasks, inStatus))

NoCallback == [call |-> "none"]

\* KanbanBoard.handleDragEnd and TaskListView.handleDragEnd: the callback the
\* drop ends in.  over.id is a status (of a column or section) or the id of a
\* task.
OverColumn(status) == [column |-> status, task |-> 0]
OverTask(id) == [column |-> "", task |-> id]

handleDragEnd(tasks, activeId, over) ==
  LET activeIndex == findIndex(tasks, activeId)
      activeTask == tasks[activeIndex]
  IN  IF activeIndex = 0 THEN NoCallback
      ELSE IF over.column \in TaskStatus
      THEN LET overId == over.column
               targetTasks == getTasksByStatus(tasks, overId)
               newOrder == Len(targetTasks)
           IN  IF activeTask.status # overId
               THEN [call |-> "onMoveTask", id |-> activeId, status |-> overId,
                     order |-> newOrder]
               ELSE NoCallback
      ELSE LET overId == over.task
               overIndex == findIndex(tasks, overId)
               overTask == tasks[overIndex]
           IN  IF overIndex = 0 THEN NoCallback
               ELSE IF activeTask.status = overTask.status
               THEN LET columnTasks == getTasksByStatus(tasks, activeTask.status)
                        oldIndex == findIndex(columnTasks, activeId)
                        newIndex == findIndex(columnTasks, overId)
                        reordered == arrayMove(columnTasks, oldIndex, newIndex)
                        updatedTasks ==
                          [i \in DOMAIN tasks |->
                             IF tasks[i].status = activeTask.status
                             THEN [tasks[i] EXCEPT
                                     !.order = findIndex(reordered, tasks[i].id) - 1]
                             ELSE tasks[i]]
                    IN  IF oldIndex # newIndex
                        THEN [call |-> "onReorderTasks", updatedTasks |-> updatedTasks]
                        ELSE NoCallback
               ELSE LET targetTasks == getTasksByStatus(tasks, overTask.status)
                        newIndex == findIndex(targetTasks, overId)
                    IN  [call |-> "onMoveTask", id |-> activeId,
                         status |-> overTask.status, order |-> newIndex - 1]

\* TodoPage: const filteredTasks = filterTasksByWeekInfo(tasks, selectedWeek, showAllWeeks)
filteredTasks == filterTasksByWeekInfo(taskStore.tasks, selectedWeek, fShowAll)

\* the store is in use: initialize() has run, the page filters by week and
\* shows the week in which tasks are completed or the week after it
StoreInit(mayFail) ==
  /\ faulty = mayFail /\ profile = "status" /\ conc = 1
  /\ backend \in {"localStorage", "indexedDB"}
  /\ ls = LsAbsent /\ flag = TRUE /\ idb = {} /\ tx = NoTx /\ calls = <<>>
  /\ now = 0 /\ nextId = 1 /\ last = NoCall /\ overridden = FALSE
  /\ mig = [p \in Migrations |-> NotCalled] /\ inserts = 0 /\ needed = NotAsked
  /\ FilterArgsIdle
  /\ zone = "UTC" /\ today \in {0, 7 * TicksPerDay}
  /\ selectedWeek = getWeekInfo(today)
  /\ path = <<>> /\ isoWeek = <<>> /\ wcall = [fn |-> "none"]
  /\ taskStore = InitialStore(TRUE) /\ act = NoAct /\ refresh = FALSE
  /\ init = [i \in Initializers |-> NotCalled]

\* TodoPage.handleSubmitTask without a task being edited
handleSubmitTask ==
  \E taskData \in CreateInputs, ok \in StoreWriteOutcomes : createTask(taskData, ok)

\* TaskCard.handleCheckboxChange: the checkbox of a card that is shown, which
\* in-progress and completed tasks have, is ticked or cleared
handleCheckboxChange ==
  \E i \in DOMAIN filteredTasks, checked \in BOOLEAN, ok \in StoreWriteOutcomes :
    LET task == filteredTasks[i]
    IN  /\ task.status \in {"in-progress", "completed"}
        /\ updateTask(task.id,
                      [status |-> IF checked THEN "completed" ELSE "in-progress",
                       completedAt |-> IF checked THEN now ELSE Null], ok)

\* TodoPage.handleDeleteTask and handleConfirmDelete: a task of the store is
\* deleted
handleConfirmDelete ==
  \E i \in DOMAIN taskStore.tasks, ok \in StoreWriteOutcomes :
    deleteTask(taskStore.tasks[i].id, ok)

\* a drop on the board or the list view that ends in onMoveTask:
\* TodoPage.handleMoveTask calls updateTask(taskId, { status, order })
DragEndMove ==
  \E activeId \in Ids(SeqToSet(filteredTasks)), ok \in StoreWriteOutcomes,
     over \in {OverColumn(s) : s \in TaskStatus}
               \cup {OverTask(i) : i \in Ids(SeqToSet(filteredTasks))} :
    LET drop == handleDragEnd(filteredTasks, activeId, over)
    IN  /\ drop.call = "onMoveTask"
        /\ updateTask(drop.id, [status |-> drop.status, order |-> drop.order], ok)

\* a drop that ends in onReorderTasks: TodoPage.handleReorderTasks calls
\* reorderTasks(updatedTasks)
DragEndReorder ==
  \E activeId \in Ids(SeqToSet(filteredTasks)), overId \in Ids(SeqToSet(filteredTasks)),
     ok \in StoreWriteOutcomes :
    LET drop == handleDragEnd(filteredTasks, activeId, OverTask(overId))
    IN  /\ drop.call = "onReorderTasks"
        /\ reorderTasks(drop.updatedTasks, ok)

StoreNext ==
  \/ handleSubmitTask \/ handleCheckboxChange \/ handleConfirmDelete
  \/ DragEndMove \/ DragEndReorder
  \/ FetchTasksSettle

\* the store over backends whose writes may fail
StoreInitFaulty == StoreInit(TRUE)
SpecStore == StoreInitFaulty /\ [][StoreNext]_vars

\* tasks are created, and cards dragged, and nothing else; no write fails
BoardInit == StoreInit(FALSE)
BoardNext == handleSubmitTask \/ DragEndMove \/ DragEndReorder
SpecBoard == BoardInit /\ [][BoardNext]_vars

-----------------------------------------------------------------------------
(* useTaskStore.initialize, called by every page that mounts                 *)

Initializing(pc, ran) == [pc |-> pc, ran |-> ran]

\* fetchTasks, up to "await storage.getAll()"
fetchTasksStart == [taskStore EXCEPT !.isLoading = TRUE, !.error = NoError]

\* initialize(), from "const { isInitialized, fetchTasks } = get()" to its
\* first await: the await of migrateFromLocalStorage() when isMigrationNeeded(),
\* of fetchTasks() when not; nothing is done when isInitialized is set
InitializeStart(i) ==
  /\ init[i].pc = "idle"
  /\ \A j \in Initializers : j < i => init[j].pc # "idle"
  /\ IF taskStore.isInitialized
     THEN /\ init' = [init EXCEPT ![i] = Initializing("done", {})]
          /\ UNCHANGED <<taskStore, repoVars, migVars, filterVars>>
     ELSE IF isMigrationNeeded
     THEN /\ \E p \in Migrations : migrateFromLocalStorage(p)
          /\ init' = [init EXCEPT ![i] = Initializing("migrating", {"migration"})]
          /\ taskStore' = taskStore
     ELSE /\ init' = [init EXCEPT ![i] = Initializing("fetching", {"fetchTasks"})]
          /\ taskStore' = fetchTasksStart
          /\ UNCHANGED <<repoVars, migVars, filterVars>>
  /\ UNCHANGED <<act, refresh>>

\* initialize(), from the return of migrateFromLocalStorage() to
\* "await fetchTasks()"; the i-th call of initialize made the i-th call of
\* migrateFromLocalStorage or none
InitializeMigrated(i) ==
  /\ init[i].pc = "migrating"
  /\ \E p \in Migrations :
       /\ mig[p].pc = "done"
       /\ p = Cardinality({j \in 1..i : "migration" \in init[j].ran})
  /\ init' = [init EXCEPT ![i] = Initializing("fetching", @.ran \cup {"fetchTasks"})]
  /\ taskStore' = fetchTasksStart
  /\ UNCHANGED <<act, refresh, repoVars, migVars, filterVars>>

\* fetchTasks resolves and initialize() ends: set({ tasks, isLoading: false }),
\* set({ isInitialized: true })
InitializeFetched(i) ==
  /\ init[i].pc = "fetching"
  /\ init' = [init EXCEPT ![i] = Initializing("done", @.ran)]
  /\ taskStore' = [taskStore EXCEPT !.tasks = StorageGetAll, !.isLoading = FALSE,
                                    !.isInitialized = TRUE]
  /\ UNCHANGED <<act, refresh, repoVars, migVars, filterVars>>

InitializeNext ==
  \/ \E i \in Initializers : InitializeStart(i) \/ InitializeMigrated(i) \/ InitializeFetched(i)
  \/ \E p \in Migrations : MigrateInsert(p) \/ MigrateFinish(p)

\* two pages mount: initialize() is called while an earlier call is suspended
\* or after it has ended
InitializeInit == MigInit(FALSE, 2)
SpecInitialize == InitializeInit /\ [][InitializeNext]_vars

\* migrate() called one call after the other, no step failing
MigInitSeq == MigInit(FALSE, 1)
SpecMig == MigInitSeq /\ [][MigNext]_vars

\* migrate() called while another call is suspended, no step failing
MigInitOverlap == MigInit(FALSE, 2)
SpecMigOverlap == MigInitOverlap /\ [][MigNext]_vars

\* migrate() called one call after the other, any step may fail
MigInitFaulty == MigInit(TRUE, 1)
SpecMigFaulty == MigInitFaulty /\ [][MigNext]_vars

\* overlapping calls whose steps may fail
MigInitFaultyOverlap == MigInit(TRUE, 2)
SpecMigFaultyOverlap == MigInitFaultyOverlap /\ [][MigNext]_vars

\* the repository's update and delete are called between and during calls of
\* migrateFromLocalStorage whose steps may fail
MigInitRepo == MigInit(TRUE, 1)
\* one call of the repository, made once the records have been inserted
RepoUpdateAfterInsert == inserts >= 1 /\ last = NoCall /\ IdbUpdateStart
RepoDeleteAfterInsert == inserts >= 1 /\ last = NoCall /\ IdbDeleteStart
MigRepoNext ==
  \/ MigNext
  \/ RepoUpdateAfterInsert \/ IdbUpdateFinish
  \/ RepoDeleteAfterInsert \/ IdbDeleteFinish
SpecMigRepo == MigInitRepo /\ [][MigRepoNext]_vars

\* the repository with writes that succeed
RepoInitSound == RepoInit(FALSE, "status")
SpecRepo == RepoInitSound /\ [][RepoNext]_vars

\* the repository with callers that edit fields other than status and completedAt
RepoInitFields == RepoInit(FALSE, "fields")
SpecRepoFields == RepoInitFields /\ [][RepoNext]_vars

\* the indexed repository with a caller that does not wait for one call to
\* settle before it makes the next: a card is edited while it is moved
RepoInitOverlap ==
  /\ faulty = FALSE /\ profile = "fields" /\ conc = 2
  /\ backend = "indexedDB"
  /\ FilterIdle /\ MigIdle
  /\ overridden = FALSE /\ ls = LsAbsent /\ flag = FALSE /\ idb = {}
  /\ tx = NoTx /\ calls = <<>> /\ now = 0 /\ nextId = 1 /\ last = NoCall
RepoOverlapNext ==
  \/ IdbCreateStart \/ IdbCreateFinish \/ IdbUpdateStart \/ IdbUpdateFinish
SpecRepoOverlap == RepoInitOverlap /\ [][RepoOverlapNext]_vars

\* the two adapters driven side by side
SpecBoth == BothInit /\ [][BothNext]_vars

\* the repository with writes that may fail
RepoInitFaulty == RepoInit(TRUE, "status")
SpecRepoFaulty == RepoInitFaulty /\ [][RepoFaultyNext]_vars

Range(s) == {s[i] : i \in DOMAIN s}

\* C1: with showAll = false every task whose status is not completed is in
\* the filter's output, whatever its completedAt or createdAt and whatever
\* the week.
C1_IncompleteAlwaysShown ==
  (fpc = "done" /\ ~fShowAll) =>
    \A i \in DOMAIN fTasks :
      fTasks[i].status # "completed" => fTasks[i] \in Range(fOut)

\* an incomplete task that carries a completedAt outside the selected week,
\* and was created outside it, is in the output
C1_Witness ==
  /\ fpc = "done" /\ ~fShowAll
  /\ \E i \in DOMAIN fTasks :
       /\ fTasks[i].status = "on-hold"
       /\ fTasks[i].completedAt # Null
       /\ fTasks[i].completedAt > fWeek.endDate
       /\ fTasks[i].createdAt > fWeek.endDate
       /\ fTasks[i] \in Range(fOut)

\* C2: with showAll = false a completed task is in the output if and only if
\* its completedAt is non-null and lies in [startDate, endDate] inclusive.
C2_CompletedIffInWeek ==
  (fpc = "done" /\ ~fShowAll) =>
    \A i \in DOMAIN fTasks :
      fTasks[i].status = "completed" =>
        (fTasks[i] \in Range(fOut) <=>
           /\ fTasks[i].completedAt # Null
           /\ fTasks[i].completedAt >= fWeek.startDate
           /\ fTasks[i].completedAt <= fWeek.endDate)

\* one completed task finished in the last tick of the week is kept, one
\* finished on the Monday at 00:00 too, and one with a null completedAt is not
C2_Witness ==
  /\ fpc = "done" /\ ~fShowAll
  /\ Len(fTasks) = 2
  /\ fTasks[1].status = "completed" /\ fTasks[2].status = "completed"
  /\ fTasks[1].completedAt \in {fWeek.startDate, fWeek.endDate}
  /\ fTasks[2].completedAt = Null
  /\ fOut = <<fTasks[1]>>

\* C3: migrate() called twice in succession, no step failing: the first call
\* reports success with the number of valid legacy records, those records are
\* in the new backend, the flag is DONE and the legacy store holds no record
\* any more; the second call reports success with count 0 and changes
\* neither the new backend, nor the legacy store, nor the flag.
C3_TwiceInSuccession ==
  /\ mig[1].pc = "done" =>
       /\ mig[1].result.success
       /\ mig[1].result.tasksCount = Len(validTasksOf(mig[1].lsBefore.tasks))
       /\ Ids(SeqToSet(validTasksOf(mig[1].lsBefore.tasks))) \subseteq Ids(mig[1].idbAfter)
       /\ mig[1].flagAfter
       /\ getTasks(mig[1].lsAfter) = <<>>
  /\ (mig[1].pc = "done" /\ mig[2].pc = "done") =>
       /\ mig[2].result.success
       /\ mig[2].result.tasksCount = 0
       /\ mig[2].idbAfter = mig[2].idbBefore
       /\ mig[2].lsAfter = mig[2].lsBefore
       /\ mig[2].flagAfter = mig[2].flagBefore

\* C4: when two calls of migrate() overlap, the legacy records are
\* bulk-inserted into the new backend by at most one of them.
C4_InsertedAtMostOnce == inserts <= 1

\* C5: a call of migrate() in which a step after the flag check raised has
\* returned success = false with an error text, and at its return the flag
\* is still PENDING and the legacy store is what it was when the call began.
C5_FailureLeavesPendingAndLegacy ==
  \A p \in Migrations :
    (mig[p].pc = "done" /\ mig[p].raised # "none") =>
      /\ ~mig[p].result.success
      /\ mig[p].result.error # ""
      /\ ~mig[p].flagAfter
      /\ mig[p].lsAfter = mig[p].lsBefore

\* the update that settled in the last step wrote its result
UpdateStored ==
  /\ last.op = "update" /\ last.outcome = "resolved"

OldOf(old, id) ==
  IF \E x \in old : x.id = id THEN CHOOSE x \in old : x.id = id ELSE NoTask
AllNew(batch) == \A i \in DOMAIN batch : StoredTask(batch[i].id) = batch[i]
AllOld(old, batch) == \A i \in DOMAIN batch : StoredTask(batch[i].id) = OldOf(old, batch[i].id)

\* C6: bulkUpdate is all-or-nothing on both backends: while the batch is
\* being written, and after the call has resolved or failed, getAll() shows
\* every task of the batch in its old state or every task in its new state.
C6_BulkAllOrNothing ==
  /\ tx.open => (AllOld(tx.old, tx.batch) \/ AllNew(tx.batch))
  /\ last.op = "bulkUpdate" => (AllOld(last.existing, last.result) \/ AllNew(last.result))

\* a batch of two tasks, both changed by it, with one of the two puts carried
\* out in a run whose writes may fail
C6_Witness ==
  /\ faulty /\ tx.open /\ Len(tx.batch) = 2 /\ tx.puts = 1
  /\ \A i \in DOMAIN tx.batch : tx.batch[i] # OldOf(tx.old, tx.batch[i].id)
  /\ AllOld(tx.old, tx.batch)

\* C7: as long as no update payload has supplied completedAt, every stored
\* task has completedAt non-null if and only if its status is completed.
C7_CompletedAtIffCompleted ==
  ~overridden =>
    \A x \in Stored : (x.completedAt # Null) <=> (x.status = "completed")

\* a task created completed (completedAt is its creation time) next to a
\* task that was completed by a later update
C7_Witness ==
  /\ ~overridden
  /\ \E x, y \in Stored :
       /\ x.id # y.id
       /\ x.status = "completed" /\ x.completedAt = x.createdAt /\ x.updatedAt = x.createdAt
       /\ y.status = "completed" /\ y.completedAt > y.createdAt

\* C8: an update that moves a task that is not completed to completed, and
\* supplies no completedAt, stores completedAt = the time of the update = the
\* new updatedAt.
C8_CompleteStampsNow ==
  (/\ UpdateStored
   /\ last.existing.status # "completed"
   /\ "status" \in DOMAIN last.input /\ last.input.status = "completed"
   /\ "completedAt" \notin DOMAIN last.input)
  => /\ StoredTask(last.id).completedAt = last.at
     /\ StoredTask(last.id).updatedAt = last.at
     /\ last.at = now

\* the clock has moved since the task was created and last written
C8_Witness ==
  /\ UpdateStored
  /\ last.existing.status = "in-progress" /\ last.existing.updatedAt < now
  /\ last.input = [status |-> "completed"]
  /\ StoredTask(last.id).completedAt = now
  /\ StoredTask(last.id).status = "completed"

\* C9: an update that moves a completed task to a status that is not
\* completed, and supplies no completedAt, stores completedAt = null.
C9_UncompleteClears ==
  (/\ UpdateStored
   /\ last.existing.status = "completed"
   /\ "status" \in DOMAIN last.input /\ last.input.status # "completed"
   /\ "completedAt" \notin DOMAIN last.input)
  => StoredTask(last.id).completedAt = Null

C9_Witness ==
  /\ UpdateStored
  /\ last.existing.status = "completed" /\ last.existing.completedAt # Null
  /\ last.input = [status |-> "upcoming"]
  /\ StoredTask(last.id).completedAt = Null
  /\ StoredTask(last.id).status = "upcoming"

\* C10: when the update payload supplies completedAt, a date or null, the
\* stored completedAt is that value, whatever status change the payload makes.
C10_ExplicitCompletedAtWins ==
  (UpdateStored /\ "completedAt" \in DOMAIN last.input)
  => StoredTask(last.id).completedAt = last.input.completedAt

\* a task is moved to completed with an explicit null, at a time when the
\* automatic rule would have stamped it
C10_Witness ==
  /\ UpdateStored
  /\ last.existing.status = "in-progress"
  /\ last.input = [status |-> "completed", completedAt |-> Null]
  /\ StoredTask(last.id).status = "completed"
  /\ StoredTask(last.id).completedAt = Null

\* C11: an update whose payload has neither status nor completedAt leaves the
\* stored task's status and completedAt as they were before the update.
C11_OtherFieldsKeepCompletion ==
  (/\ last.op = "update" /\ last.outcome = "resolved"
   /\ "status" \notin DOMAIN last.input
   /\ "completedAt" \notin DOMAIN last.input) =>
    /\ StoredTask(last.id).status = last.existing.status
    /\ StoredTask(last.id).completedAt = last.existing.completedAt

\* a completed task, stamped earlier, has just had another field updated
C11_Witness ==
  /\ last.op = "update" /\ last.outcome = "resolved"
  /\ "status" \notin DOMAIN last.input
  /\ "completedAt" \notin DOMAIN last.input
  /\ last.existing.status = "completed"
  /\ last.existing.completedAt # Null
  /\ last.existing.completedAt < now
  /\ StoredTask(last.id).priority # last.existing.priority

\* what a mutating call that resolved must have left in the store
Persisted ==
  CASE last.op \in {"create", "update"} -> last.result \in Stored
    [] last.op = "delete" -> last.id \notin Ids(Stored)
    [] last.op = "bulkUpdate" -> \A i \in DOMAIN last.result : last.result[i] \in Stored

\* what a mutating call that rejected must have left in the store
AsBefore ==
  CASE last.op = "create" -> last.id \notin Ids(Stored)
    [] last.op \in {"update", "delete"} -> StoredTask(last.id) = last.existing
    [] last.op = "bulkUpdate" -> last.existing \subseteq Stored

\* C12: a create, update, delete or bulkUpdate whose underlying write failed
\* rejects and leaves the persisted collection as it was; a call that
\* resolves has persisted its result.
C12_FailedWriteRejects ==
  last.op \in {"create", "update", "delete", "bulkUpdate"} =>
    /\ last.outcome \in {"resolved", "resolved-unsaved"} => Persisted
    /\ last.outcome = "rejected" => AsBefore

\* C13: on the localStorage and IndexedDB backends, an update or delete of an
\* id that is not stored rejects with NotFound and leaves the stored
\* collection as it was; a delete of a stored id removes that task and no other.
C13_NotFoundAndDelete ==
  [][(backend # "noop" /\ last'.op \in {"update", "delete"}) =>
       /\ last'.id \notin Ids(Stored) =>
            (last'.outcome = "NotFound" /\ Stored' = Stored)
       /\ (last'.op = "delete" /\ last'.id \in Ids(Stored)) =>
            /\ last'.outcome = "resolved"
            /\ Stored' = {x \in Stored : x.id # last'.id}]_vars

\* an update of an id that is not stored, on a store that holds another task
C13_Witness ==
  /\ last.op = "update" /\ last.outcome = "NotFound"
  /\ backend # "noop"
  /\ Stored # {}
  /\ last.id \notin Ids(Stored)

\* C14: an update leaves the stored task's id and createdAt as they were,
\* whatever id and createdAt its payload carries, and no step ever changes
\* the createdAt a stored task was created with.
C14_IdentityKept ==
  [][/\ \A x \in Stored : \A y \in Stored' : x.id = y.id => y.createdAt = x.createdAt
     /\ (last'.op = "update" /\ last'.outcome = "resolved") =>
          /\ Ids(Stored') = Ids(Stored)
          /\ last'.id \in Ids(Stored')
          /\ last'.result.id = last'.id
          /\ last'.result.createdAt = last'.existing.createdAt]_vars

\* an update whose payload carried another id and another createdAt has been stored
C14_Witness ==
  /\ last.op = "update" /\ last.outcome = "resolved"
  /\ "id" \in DOMAIN last.input /\ last.input.id # last.id
  /\ "createdAt" \in DOMAIN last.input
  /\ last.input.createdAt # last.existing.createdAt
  /\ StoredTask(last.id).priority = last.input.priority

\* C15: a create without an explicit order stores the task with order 1 + the
\* largest order among the stored tasks of the same status, or 0 when there
\* is none; a create with an explicit order stores that order.
C15_OrderOfCreate ==
  [][(last'.op = "create" /\ last'.outcome = "resolved") =>
       LET same == {x \in Stored : x.status = last'.input.status}
           created == {y \in Stored' : y.id = last'.id}
       IN  /\ created # {}
           /\ \A y \in created :
                y.order = IF "order" \in DOMAIN last'.input THEN last'.input.order
                          ELSE IF same = {} THEN 0
                          ELSE 1 + Max({x.order : x \in same})]_vars

\* a task created without an explicit order after a task of the same status
\* whose order is not the number of tasks before it
C15_Witness ==
  /\ last.op = "create" /\ last.outcome = "resolved"
  /\ "order" \notin DOMAIN last.input
  /\ StoredTask(last.id).order > Cardinality(Stored)

\* a legacy record with a non-empty id, content and status
WellFormed(r) == r.id # 0 /\ r.content # "" /\ r.status # ""
WellFormedOf(store) == {r \in SeqToSet(getTasks(store)) : WellFormed(r)}
Unstamped(S) == {[x EXCEPT !.updatedAt = 0] : x \in S}

\* C16: a call of migrate() that found the flag PENDING and a legacy array,
\* with no step failing, returns success with count = the number of
\* well-formed records, and the new backend then holds, besides what it held
\* before, exactly the well-formed records; the others are dropped.
C16_InvalidRecordsDropped ==
  \A p \in Migrations :
    (mig[p].pc = "done" /\ ~mig[p].flagBefore /\ mig[p].lsBefore.kind = "array") =>
      /\ mig[p].raised = "none"
      /\ mig[p].result.success
      /\ mig[p].result.tasksCount = Cardinality(WellFormedOf(mig[p].lsBefore))
      /\ Unstamped(mig[p].idbAfter) =
           Unstamped(mig[p].idbBefore) \cup WellFormedOf(mig[p].lsBefore)

\* a legacy array of one well-formed and one malformed record has been migrated
C16_Witness ==
  /\ mig[1].pc = "done"
  /\ ~mig[1].flagBefore
  /\ Len(getTasks(mig[1].lsBefore)) = 2
  /\ Cardinality(WellFormedOf(mig[1].lsBefore)) = 1
  /\ mig[1].result.tasksCount = 1
  /\ Cardinality(mig[1].idbAfter) = 1

C18_InsertThenFlagThenErase ==
  \A p \in Migrations :
    (/\ mig[p].pc # "idle" /\ ~mig[p].flagBefore
     /\ WellFormedOf(mig[p].lsBefore) # {}) =>
      /\ mig[p].pc = "insert" => (~flag /\ ls = mig[p].lsBefore)
      /\ flag => (inserts >= 1 /\ Ids(WellFormedOf(mig[p].lsBefore)) \subseteq Ids(idb))
      /\ ls.kind = "absent" => flag

\* the insert is committed and the flag DONE, and the erase failed: the
\* legacy store is still there
C18_Witness ==
  /\ mig[1].pc = "done" /\ mig[1].raised = "removeItem"
  /\ flag /\ inserts = 1 /\ idb # {}
  /\ ls = mig[1].lsBefore

\* C19: on the no-op backend getAll, getByStatus and getByDateRange resolve
\* with an empty list, getById resolves with null, and create, update,
\* delete, bulkUpdate and clear reject as unsupported.
C19_NoOpBackend ==
  (backend = "noop" /\ last.op # "none") =>
    /\ last.op \in {"getAll", "getByStatus", "getByDateRange"} =>
         (last.outcome = "resolved" /\ last.result = <<>>)
    /\ last.op = "getById" => (last.outcome = "resolved" /\ last.result = NoTask)
    /\ last.op \in {"create", "update", "delete", "bulkUpdate", "clear"} =>
         last.outcome = "Unsupported"

\* C20: after every step of a run in which the same create, update, delete
\* and clear calls are issued to both backends, getAll, getById and
\* getByStatus return the same tasks on both (as sets), and the last call
\* returned the same result or the same error on both.
C20_BackendsAgree ==
  /\ SeqToSet(getTasks(ls)) = idb
  /\ \A id \in TaskIds : LsGetById(ls, id) = IdbGet(idb, id)
  /\ \A st \in TaskStatus : SeqToSet(LsGetByStatus(ls, st)) = IdbGetByStatus(idb, st)
  /\ last.op # "none" => last.ls = last.idb

\* an update has been stored by both backends, each holding two tasks
C20_Witness ==
  /\ backend = "both"
  /\ last.op = "update" /\ last.ls.outcome = "resolved" /\ last.idb.outcome = "resolved"
  /\ last.ls.result.updatedAt > last.ls.result.createdAt
  /\ Len(getTasks(ls)) = 2 /\ Cardinality(idb) = 2

----------------------------------------------------------------------------
\* C21: with showAll = true filterTasksByWeekInfo returns every task of its
\* input, unchanged and in the input's order, whatever week is selected.
C21_ShowAllReturnsAll ==
  (fpc = "done" /\ fShowAll) => fOut = fTasks

\* showAll returned a completed task that the selected week does not contain
C21_Witness ==
  /\ fpc = "done" /\ fShowAll
  /\ Len(fTasks) = MaxLen
  /\ \E i \in DOMAIN fOut :
       /\ fOut[i].status = "completed"
       /\ fOut[i].completedAt # Null
       /\ ~isDateInWeek(fOut[i].completedAt, fWeek)
  /\ \E i \in DOMAIN fOut : fOut[i].status = "completed" /\ fOut[i].completedAt = Null

----------------------------------------------------------------------------
\* ISO 8601 week dates, stated from the standard: weeks run from Monday to
\* Sunday, week 1 of a year is the week that holds January 4th, and a week
\* belongs to the year whose week 1 it follows.
MondayOnOrBefore(day) == day - ((day + 3) % 7)

Week1Monday(y) == MondayOnOrBefore(YearStartDay(y) + 3)

IsoWeekOf(t) ==
  LET m == MondayOnOrBefore(DayOf(t))
      y == CHOOSE yy \in (getFullYear(t) - 1)..(getFullYear(t) + 1) :
             Week1Monday(yy) <= m /\ m < Week1Monday(yy + 1)
  IN  [year |-> y, week |-> (m - Week1Monday(y)) \div 7 + 1]

\* December 29th to 31st and January 1st to 3rd
AtYearBoundary(t) ==
  \/ getMonth(t) = 11 /\ getDate(t) >= 29
  \/ getMonth(t) = 0 /\ getDate(t) <= 3

\* the date whose week the last call of getWeekInfo computed
WeekArg == IF wcall.fn = "navigateWeek" THEN wcall.out.startDate ELSE wcall.arg

\* C22: for a date from December 29th to January 3rd getISOWeek returns the
\* ISO 8601 year and week, which may belong to the neighbouring calendar year:
\* 2024-12-30 is week 1 of 2025 and 2023-01-01 is week 52 of 2022.
C22_YearBoundary ==
  (wcall.fn \in {"getWeekInfo", "navigateWeek"} /\ AtYearBoundary(WeekArg)) =>
    /\ [year |-> wcall.out.year, week |-> wcall.out.week] = IsoWeekOf(WeekArg)
    /\ startOfDay(WeekArg) = NewDate(2024, 11, 30) =>
         wcall.out.year = 2025 /\ wcall.out.week = 1
    /\ startOfDay(WeekArg) = NewDate(2023, 0, 1) =>
         wcall.out.year = 2022 /\ wcall.out.week = 52

\* from week 52 of 2024 the next week, which starts on 2024-12-30, came out as
\* week 1 of 2025
C22_Witness ==
  /\ wcall.fn = "navigateWeek" /\ wcall.arg.direction = "next"
  /\ wcall.arg.from.year = 2024 /\ wcall.arg.from.week = 52
  /\ wcall.out.startDate = NewDate(2024, 11, 30)
  /\ wcall.out.year = 2025 /\ wcall.out.week = 1
  /\ zone = "Australia/Sydney"

\* C23: for every date d the week number lies in 1..53, and the week's window
\* holds d: it starts on a Monday at 00:00:00.000 that is not after d and ends
\* at 23:59:59.999 of the Sunday six days later, which is not before d.
C23_WeekHoldsDate ==
  wcall.fn \in {"getWeekInfo", "navigateWeek"} =>
    /\ wcall.out.week \in 1..53
    /\ wcall.out.startDate <= WeekArg /\ WeekArg <= wcall.out.endDate
    /\ getDay(wcall.out.startDate) = 1
    /\ wcall.out.startDate = startOfDay(wcall.out.startDate)
    /\ getDay(wcall.out.endDate) = 0
    /\ wcall.out.endDate = endOfDay(wcall.out.endDate)
    /\ DayOf(wcall.out.endDate) = DayOf(wcall.out.startDate) + 6

\* the last instant of a Sunday that closes a week 53
C23_Witness ==
  /\ wcall.fn = "getWeekInfo"
  /\ getDay(wcall.arg) = 0 /\ wcall.arg = endOfDay(wcall.arg)
  /\ wcall.out.week = 53
  /\ wcall.out.endDate = wcall.arg
  /\ wcall.out.startDate = wcall.arg - 7 * TicksPerDay + 1

\* C24: going to the previous week and then to the next one, or the other way
\* round, from the week of any date gives that week again (same year, week,
\* startDate and endDate), across a year boundary too; and the next week
\* starts exactly seven days after the week it was taken from.
C24_NextPreviousInverse ==
  /\ path \in {<<"next", "prev">>, <<"prev", "next">>} =>
       selectedWeek = getWeekInfo(today)
  /\ (wcall.fn = "navigateWeek" /\ wcall.arg.direction = "next") =>
       wcall.out.startDate = wcall.arg.from.startDate + 7 * TicksPerDay

\* from week 1 back into week 53 of the year before, and forward again
C24_Witness ==
  /\ path = <<"prev", "next">>
  /\ wcall.fn = "navigateWeek"
  /\ wcall.arg.from.week = 53
  /\ wcall.arg.from.year = selectedWeek.year - 1
  /\ selectedWeek.week = 1
  /\ selectedWeek = getWeekInfo(today)
  /\ selectedWeek.startDate = wcall.arg.from.startDate + 7 * TicksPerDay

\* C25: parsing the string formatISOWeek makes of a week gives a week with the
\* same startDate, for every week getWeekInfo returns, week 1 and the last
\* week (52 or 53) of a year included.
C25_FormatParseRoundTrip ==
  wcall.fn = "parseISOWeek" =>
    /\ wcall.arg = formatISOWeek(selectedWeek)
    /\ wcall.out.outcome = "returned"
    /\ wcall.out.value.startDate = selectedWeek.startDate

\* the round trip in the zones whose January is not an hour ahead of their July
C25_RoundTripExactDays ==
  (wcall.fn = "parseISOWeek" /\ zone # "Australia/Sydney") =>
    /\ wcall.out.outcome = "returned"
    /\ wcall.out.value = selectedWeek

\* the pattern ^\d{4}-W\d{2}$
DigitSet == {"0", "1", "2", "3", "4", "5", "6", "7", "8", "9"}
InPattern(str) ==
  /\ Len(str) = 8
  /\ SubSeq(str, 5, 6) = <<"-", "W">>
  /\ {str[i] : i \in {1, 2, 3, 4, 7, 8}} \subseteq DigitSet

\* C26: on every string that does not match ^\d{4}-W\d{2}$ parseISOWeek fails
\* with an error and returns no WeekInfo.
C26_ParseRejectsMalformed ==
  (wcall.fn = "parseISOWeek" /\ ~InPattern(wcall.arg)) =>
    /\ wcall.out.outcome = "threw"
    /\ "value" \notin DOMAIN wcall.out

\* a lower-case w was refused
C26_Witness ==
  /\ wcall.fn = "parseISOWeek"
  /\ Len(wcall.arg) = 8 /\ wcall.arg[6] = "w"
  /\ \A i \in {1, 2, 3, 4, 7, 8} : wcall.arg[i] \in DigitSet
  /\ wcall.out.outcome = "threw"

\* the tasks of a list that have a status
WithStatus(tasks, status) == {t \in Range(tasks) : t.status = status}

\* a list holds exactly the tasks of a set, each once, in ascending order
SortedListOf(list, S) ==
  /\ Range(list) = S
  /\ Len(list) = Cardinality(S)
  /\ \A i, j \in DOMAIN list : i < j => list[i].order <= list[j].order

\* C27: generateWeeklyReport returns exactly seven daily reports, for Monday
\* to Sunday of the week in that order, and its three groups of incomplete
\* tasks hold every upcoming, in-progress and on-hold task of the whole input,
\* whatever week the task belongs to, each group in ascending order.
C27_WeeklyReportShape ==
  fpc = "report" =>
    /\ Len(fOut.dailyReports) = 7
    /\ \A i \in 1..7 :
         /\ fOut.dailyReports[i].dayOfWeek =
              <<"Monday", "Tuesday", "Wednesday", "Thursday", "Friday", "Saturday", "Sunday">>[i]
         /\ Range(fOut.dailyReports[i].createdTasks) =
              {t \in Range(fTasks) : DayOf(t.createdAt) = DayOf(fWeek.startDate) + i - 1}
    /\ SortedListOf(fOut.incompleteTasks.upcoming, WithStatus(fTasks, "upcoming"))
    /\ SortedListOf(fOut.incompleteTasks.inProgress, WithStatus(fTasks, "in-progress"))
    /\ SortedListOf(fOut.incompleteTasks.onHold, WithStatus(fTasks, "on-hold"))

\* two upcoming tasks created outside the week, passed in descending order,
\* came back in the upcoming group in ascending order
C27_Witness ==
  /\ fpc = "report"
  /\ Len(fTasks) = 2
  /\ \A i \in 1..2 :
       fTasks[i].status = "upcoming" /\ ~isDateInWeek(fTasks[i].createdAt, fWeek)
  /\ fTasks[1].order > fTasks[2].order
  /\ fOut.incompleteTasks.upcoming = <<fTasks[2], fTasks[1]>>
  /\ \A i \in 1..7 : fOut.dailyReports[i].createdTasks = <<>>

\* C28: calculateTaskStatistics never raises, on the empty list either; total
\* is the length of the list, completed, upcoming, inProgress and onHold count
\* the tasks of that status, and completionRate is 0 for the empty list and
\* completed / total * 100 otherwise.
C28_Statistics ==
  /\ fpc = "args" => ENABLED StatisticsCall
  /\ fpc = "statistics" =>
       /\ fOut.total = Len(fTasks)
       /\ fOut.completed = Cardinality(WithStatus(fTasks, "completed"))
       /\ fOut.upcoming = Cardinality(WithStatus(fTasks, "upcoming"))
       /\ fOut.inProgress = Cardinality(WithStatus(fTasks, "in-progress"))
       /\ fOut.onHold = Cardinality(WithStatus(fTasks, "on-hold"))
       /\ fOut.completionRate.den # 0
       /\ IF fTasks = <<>> THEN fOut.completionRate.num = 0
          ELSE fOut.completionRate.num * fOut.total =
                 fOut.completed * 100 * fOut.completionRate.den

\* one task of two is completed: a rate of 50
C28_Witness ==
  /\ fpc = "statistics"
  /\ fOut.total = 2 /\ fOut.completed = 1 /\ fOut.onHold = 1
  /\ fOut.completionRate.num = 50 * fOut.completionRate.den

\* C29: the engine's functions leave the list they are given as it is, and
\* every list they return is a new array, never the array that was passed.
C29_ReturnsFreshArray ==
  fpc = "done" => ~fSame

\* what holds: when the week window is applied the list returned is a new one
C29_FreshWhenFiltering ==
  (fpc = "done" /\ ~fShowAll) => ~fSame

\* the ids of the tasks of a batch
BatchIds(batch) == {batch[i].id : i \in DOMAIN batch}

\* a bulkUpdate that resolved left the stored tasks outside its batch as they were
BulkFrame ==
  (last'.op = "bulkUpdate" /\ last'.outcome = "resolved") =>
    /\ \A x \in Stored : x.id \notin BatchIds(last'.result) => x \in Stored'
    /\ Ids(Stored') = Ids(Stored) \cup BatchIds(last'.result)

\* C30: on the localStorage and on the IndexedDB backend bulkUpdate(batch)
\* leaves every stored task whose id is not in the batch stored and unchanged:
\* the ids stored afterwards are the ids stored before together with the
\* batch's ids.
C30_BulkUpdateFrame ==
  [][backend # "noop" => BulkFrame]_vars

\* what holds: the frame on the IndexedDB backend
C30_BulkUpdateFrameIndexedDB ==
  [][backend = "indexedDB" => BulkFrame]_vars

\* the legacy store as the first call of migrateFromLocalStorage found it
LegacyAtStart == IF mig[1].pc = "idle" THEN ls ELSE mig[1].lsBefore

\* C31: migration loses no data: in every state of one or of overlapping runs
\* of migrateFromLocalStorage, whichever of the bulk insert, the flag write and
\* the legacy erase fails, every valid record the legacy store held is in the
\* legacy store or in the new backend.
C31_NoDataLost ==
  \A r \in WellFormedOf(LegacyAtStart) :
    r \in SeqToSet(getTasks(ls)) \/ r.id \in Ids(idb)

\* the bulk insert of one call failed, and an overlapping call moved two
\* records and erased the legacy store
C31_Witness ==
  /\ \E p \in Migrations : mig[p].pc = "done" /\ mig[p].raised = "bulkUpdate"
  /\ \E p \in Migrations :
       mig[p].pc = "done" /\ mig[p].result.success /\ mig[p].result.tasksCount = 2
  /\ ls = LsAbsent /\ flag
  /\ Cardinality(WellFormedOf(LegacyAtStart)) = 2
  /\ Ids(WellFormedOf(LegacyAtStart)) = Ids(idb)

\* C32: migrateFromLocalStorage never overwrites a task of the new backend with
\* older legacy data: when an earlier call has inserted the records and the
\* repository has since changed or deleted a task, a later bulk insert leaves
\* that task as the repository last wrote it.
C32_NeverOverwrites ==
  [][(/\ inserts >= 1 /\ inserts' = inserts + 1
      /\ last.op \in {"update", "delete"} /\ last.outcome = "resolved")
     => IF last.op = "update"
        THEN IdbGet(idb', last.id) = last.result
        ELSE last.id \notin Ids(idb')]_vars

\* what holds: a bulk insert leaves every stored task whose id is not among the
\* legacy records it inserts as it was
C32_OthersUntouched ==
  [][\A p \in Migrations :
       (mig[p].pc = "insert" /\ mig'[p].pc = "finish")
       => \A x \in idb : x.id \notin Ids(SeqToSet(mig[p].validTasks)) => x \in idb']_vars

\* C33: after every successful action of the task store (createTask,
\* updateTask, deleteTask, the move and the reorder of a drop), the store's tasks
\* list holds exactly the ids that the backend's getAll() returns; after a
\* reorder made from the week-filtered list the completed tasks of other weeks
\* are still in the store.
C33_StoreMirrorsBackend ==
  (act.op # "none" /\ act.outcome = "resolved")
  => Ids(SeqToSet(taskStore.tasks)) = Ids(SeqToSet(StorageGetAll))

\* what holds: createTask, updateTask and deleteTask, and reorderTasks when the
\* week filter hides no task, leave the ids of the store as those of the backend if they
\* were so before
C33_OtherActionsMirror ==
  [][(/\ act'.op # "none" /\ act'.outcome = "resolved"
      /\ act'.op = "reorderTasks" => filteredTasks = taskStore.tasks
      /\ Ids(SeqToSet(taskStore.tasks)) = Ids(SeqToSet(StorageGetAll)))
     => Ids(SeqToSet(taskStore'.tasks)) = Ids(SeqToSet(StorageGetAll'))]_vars

\* the calls of initialize() that ran the migration, that ran fetchTasks
RanMigration == {i \in Initializers : init[i].pc # "idle" /\ "migration" \in init[i].ran}
RanFetchTasks == {i \in Initializers : init[i].pc # "idle" /\ "fetchTasks" \in init[i].ran}

\* C34: when initialize() is invoked a second time before the first invocation
\* has finished, the migration and the initial fetchTasks are each run at most
\* once in total.
C34_InitializedOnce ==
  Cardinality(RanMigration) <= 1 /\ Cardinality(RanFetchTasks) <= 1

\* what holds: a call of initialize() made after isInitialized was set runs
\* neither, and every call that has ended leaves isInitialized set
C34_InitializeAfterTheFirst ==
  [][\A i \in Initializers :
       /\ (init[i].pc = "idle" /\ init'[i].pc # "idle" /\ taskStore.isInitialized)
          => init'[i].ran = {}
       /\ init'[i].pc = "done" => taskStore'.isInitialized]_vars

\* C35: when the storage call of a task store action (createTask, updateTask,
\* deleteTask, reorderTasks) rejects, the action rejects to its caller and the
\* store's error is the failure message.
C35_RejectionSetsError ==
  (act.op # "none" /\ act.outcome = "rejected") => taskStore.error = act.message

\* what holds: a rejected createTask, updateTask or deleteTask leaves the error
\* set to the message and the tasks list as it was; a rejected reorderTasks
\* leaves the list as it was until the fetchTasks() it started puts what
\* getAll() returns in its place
C35_RejectionKeepsTasks ==
  [][/\ (act'.op \in {"createTask", "updateTask", "deleteTask"} /\ act'.outcome = "rejected")
        => (taskStore'.tasks = taskStore.tasks /\ taskStore'.error = act'.message)
     /\ (act'.op = "reorderTasks" /\ act'.outcome = "rejected")
        => (taskStore'.tasks = taskStore.tasks /\ refresh')
     /\ (refresh /\ ~refresh') => taskStore'.tasks = StorageGetAll']_vars

\* the fields a payload of update can change
Editable == {"content", "status", "priority", "order", "completedAt"}

\* C36: on the indexed backend two update() calls on the same task that
\* overlap, the second having read the task before the first wrote it, lose
\* neither update: when their payloads change different fields, the task stored
\* after both have finished carries both changes.
C36_NoLostUpdate ==
  [][(/\ last.op = "update" /\ last.outcome = "resolved"
      /\ last'.op = "update" /\ last'.outcome = "resolved"
      /\ Len(calls') < Len(calls)
      /\ last'.id = last.id /\ last'.existing = last.existing
      /\ DOMAIN last.input \cap DOMAIN last'.input = {})
     => \A u \in {last.input, last'.input} :
          \A k \in DOMAIN u \cap Editable : IdbGet(idb', last.id)[k] = u[k]]_vars

\* what holds: the call that writes last stores its own payload over the task
\* it read
C36_LastWriterStored ==
  [][(last'.op = "update" /\ last'.outcome = "resolved" /\ Len(calls') < Len(calls))
     => /\ IdbGet(idb', last'.id) = last'.result
        /\ \A k \in DOMAIN last'.input \cap Editable :
             IdbGet(idb', last'.id)[k] = last'.input[k]]_vars

OrdersDistinct(S) ==
  \A x, y \in S : (x.id # y.id /\ x.status = y.status) => x.order # y.order

\* C37: after any sequence of creates without an explicit order, drops that
\* move a task to another status (on a column or on a task) and reorders
\* within a column, no two stored tasks with the same status have the same
\* order value.
C37_OrdersDistinct == OrdersDistinct(Stored)

\* what holds: a create without an explicit order gives the new task an order
\* no stored task of its status has
C37_CreateKeepsDistinct ==
  [][(nextId' = nextId + 1 /\ act'.outcome = "resolved" /\ OrdersDistinct(Stored))
     => OrdersDistinct(Stored')]_vars

\* C38: selecting a completed task in the task search sets the selected week
\* so that the task is visible on the board: after handleTaskSelect(task), task
\* is in filterTasksByWeekInfo(tasks, selectedWeek, false).  Stated for the
\* completed tasks that carry a completion date.
C38_SelectedTaskVisible ==
  (/\ wcall.fn = "handleTaskSelect" /\ wcall.arg.status = "completed"
   /\ wcall.arg.completedAt # Null)
  => wcall.arg \in Range(filterTasksByWeekInfo(fTasks, selectedWeek, FALSE))

\* what holds: the selected week is the week of the task's creation, and the
\* task is visible when it was completed in that week
C38_VisibleWhenCompletedInCreationWeek ==
  (wcall.fn = "handleTaskSelect" /\ wcall.arg.status = "completed")
  => /\ selectedWeek = getWeekInfo(wcall.arg.createdAt)
     /\ (/\ wcall.arg.completedAt # Null
         /\ isDateInWeek(wcall.arg.completedAt, getWeekInfo(wcall.arg.createdAt)))
        => wcall.arg \in Range(filterTasksByWeekInfo(fTasks, selectedWeek, FALSE))

\* the weeks year y has under ISO 8601
WeeksInYear(y) == (Week1Monday(y + 1) - Week1Monday(y)) \div 7

\* C39: for every string s that matches ^\d{4}-W\d{2}$,
\* formatISOWeek(parseISOWeek(s)) = s: parsing a well-formed week string gives
\* the week the string names, with the same year and week number.
C39_ParseFormatRoundTrip ==
  [][(wcall.fn = "setSelectedWeek" /\ wcall'.fn = "formatISOWeek" /\ InPattern(isoWeek))
     => isoWeek' = isoWeek]_vars

\* what holds: the string comes back when it names a week its year has, the
\* year has four significant digits, and January is not in daylight saving time
C39_RoundTripOfExistingWeeks ==
  [][(/\ wcall.fn = "setSelectedWeek" /\ wcall'.fn = "formatISOWeek" /\ InPattern(isoWeek)
      /\ zone # "Australia/Sydney"
      /\ parseInt(SubSeq(isoWeek, 1, 4)) >= FirstYear
      /\ parseInt(SubSeq(isoWeek, 7, 8)) \in 1..WeeksInYear(parseInt(SubSeq(isoWeek, 1, 4))))
     => isoWeek' = isoWeek]_vars

====
